---- MODULE Spec2Model ----
(***************************************************************************)
(* A model of the retrieval core of ai-bible-assistant:                    *)
(*   modules/bible_manager.py  BibleManager (load, search, stats),         *)
(*                             CategoryClassifier                          *)
(*   utils.py                  TextProcessor.extract_keywords, global_cache*)
(*   config.py                 SIMILARITY_THRESHOLD                        *)
(*                                                                         *)
(* Numbers.  A similarity score is kept as an exact fraction [n, d] in     *)
(* lowest terms (d > 0).  Embedding vectors are drawn from vectors whose   *)
(* Euclidean norm is an integer, so that every cosine is such a fraction.  *)
(* Texts.  A string is a sequence of one-character strings.  An entry text *)
(* is [body, fill, str]: the characters of body followed by fill full      *)
(* stops; a full stop is never part of a keyword, so only body can match   *)
(* one.  str is FALSE for a JSON value that is not a string (a number),    *)
(* which has no lower().                                                   *)
(* Hangul.  A Hangul syllable is written as one character in its Latin     *)
(* transcription ("ga", "jok"); a word is the sequence of its syllables.   *)
(* Objects.  A verse object is named by its index in self.verses; a result *)
(* list is a sequence of such indices.                                     *)
(***************************************************************************)
EXTENDS Integers, Sequences, FiniteSets, TLC

VARIABLES
    verses,             \* BibleManager.verses: sequence of BibleVerse
    embeddings_matrix,  \* BibleManager.embeddings_matrix: None or rows
    is_loaded,          \* BibleManager.is_loaded
    global_cache,       \* utils.global_cache entry 'bible_embeddings'
    last,               \* the last call made and what it returned
    loader,             \* a load_embeddings call in progress on a thread
    classified,         \* what classify returned for each text, first time
    local_file,         \* the file at config.BIBLE_EMBEDDINGS_PATH
    cache,              \* CacheManager.cache: key -> value
    access_order,       \* CacheManager.access_order
    session,            \* a UserSession
    manager,            \* the ConversationManager
    app_status,         \* main.app_status
    running             \* the calls in progress on the request threads

\* the state outside the BibleManager
others ==
    <<local_file, cache, access_order, session, manager, app_status, running>>

vars ==
    <<verses, embeddings_matrix, is_loaded, global_cache, last, loader,
      classified, others>>

\* ------------------------------------------------------------------ bounds

\* longest source (number of JSON records) a load is given
MaxRecords == 2
\* largest top_k a search is called with
MaxTopK == 2
\* the POST requests handled
MaxRequests == 2
\* CacheManager.max_size, config.CACHE_SIZE_LIMIT made small
max_size == 2
\* the add_message calls made on a session
MaxMessages == 17
\* trailing full stops of a long entry text
LongFill == 1000

\* ---------------------------------------------------------------- numbers

\* the one element of a one-element set: Only({F(x) : x \in {e}}) is F(e)
\* with e evaluated once
Only(S) == CHOOSE x \in S : TRUE

\* a record without 'id'
None == "None"
\* self.embeddings_matrix is None
NoMatrix == <<>>

Abs(x) == IF x < 0 THEN -x ELSE x

RECURSIVE GCD(_, _)
GCD(a, b) == IF b = 0 THEN a ELSE GCD(b, a % b)

\* the fraction n/d (d > 0) in lowest terms
Frac(n, d) ==
    LET g == GCD(Abs(n), d)
    IN  [n |-> n \div g, d |-> d \div g]

Zero == Frac(0, 1)
One == Frac(1, 1)

Geq(x, y) == x.n * y.d >= y.n * x.d
Gt(x, y) == x.n * y.d > y.n * x.d
FMin(x, y) == IF Geq(x, y) THEN y ELSE x

\* config.SIMILARITY_THRESHOLD = 0.3
SIMILARITY_THRESHOLD == Frac(3, 10)

\* ------------------------------------------------------------------ texts

Range(s) == {s[i] : i \in 1..Len(s)}

TextLen(t) == Len(t.body) + t.fill

\* str.lower() on one character
LowerChar(c) ==
    CASE c = "A" -> "a"
      [] c = "B" -> "b"
      [] OTHER -> c

Lower(s) == [i \in 1..Len(s) |-> LowerChar(s[i])]

\* the class [가-힣a-zA-Z0-9] of extract_keywords' pattern
IsWordChar(c) == c \notin {" ", "."}

\* re.findall(r'[...]+', text): the maximal runs of word characters
RECURSIVE FindAll(_, _, _)
FindAll(s, i, run) ==
    IF i > Len(s)
    THEN IF run = <<>> THEN <<>> ELSE <<run>>
    ELSE IF IsWordChar(s[i])
         THEN FindAll(s, i + 1, Append(run, s[i]))
         ELSE IF run = <<>>
              THEN FindAll(s, i + 1, <<>>)
              ELSE <<run>> \o FindAll(s, i + 1, <<>>)

\* duplicates removed, first occurrence kept
RECURSIVE Dedup(_, _)
Dedup(ws, seen) ==
    IF ws = <<>> THEN <<>>
    ELSE IF Head(ws) \in seen
         THEN Dedup(Tail(ws), seen)
         ELSE <<Head(ws)>> \o Dedup(Tail(ws), seen \cup {Head(ws)})

Take(s, k) == SubSeq(s, 1, IF k < Len(s) THEN k ELSE Len(s))

MinKeywordLength == 2
MaxKeywords == 10

extract_keywords(text) ==
    LET words == FindAll(text, 1, <<>>)
        keywords == SelectSeq(words, LAMBDA w : Len(w) >= MinKeywordLength)
    IN  Take(Dedup(keywords, {}), MaxKeywords)

\* s has w at position i
MatchAt(s, w, i) ==
    /\ i + Len(w) - 1 <= Len(s)
    /\ \A j \in 1..Len(w) : s[i + j - 1] = w[j]

\* w in s
Contains(s, w) == \E i \in 1..Len(s) : MatchAt(s, w, i)

\* str.count(w): non-overlapping occurrences of w in s, from position i on
RECURSIVE Count(_, _, _)
Count(s, w, i) ==
    IF i + Len(w) - 1 > Len(s) THEN 0
    ELSE IF MatchAt(s, w, i)
         THEN 1 + Count(s, w, i + Len(w))
         ELSE Count(s, w, i + 1)

\* ---------------------------------------------------------------- vectors

RECURSIVE Dot(_, _)
Dot(a, b) == IF a = <<>> THEN 0 ELSE Head(a) * Head(b) + Dot(Tail(a), Tail(b))

\* the Euclidean norm of a vector whose norm is an integer
Norm(a) == CHOOSE r \in 0..Dot(a, a) : r * r = Dot(a, a)

\* sklearn normalize(): a zero norm is replaced by 1
SafeNorm(a) == IF Norm(a) = 0 THEN 1 ELSE Norm(a)

\* one cell of sklearn cosine_similarity(query, matrix)
Cosine(q, row) == Frac(Dot(q, row), SafeNorm(q) * SafeNorm(row))

\* cosine_similarity(query_vector, self.embeddings_matrix)[0]; the two must
\* have the same number of columns, otherwise it raises
DimOf(matrix) == Len(matrix[1])
cosine_similarity(q, matrix) == [i \in 1..Len(matrix) |-> Cosine(q, matrix[i])]

\* ----------------------------------------------------- CategoryClassifier

\* CategoryClassifier.category_keywords, in the order of the dict
category_keywords ==
    <<
      [category |-> "gwangye",
       keywords |-> <<
          <<"ga", "jok">>, <<"bu", "mo">>, <<"ja", "nyeo">>,
          <<"hyeong", "je">>, <<"ja", "mae">>, <<"chin", "gu">>,
          <<"yeon", "in">>, <<"nam", "pyeon">>, <<"a", "nae">>,
          <<"gyeol", "hon">>, <<"i", "hon">>, <<"gal", "deung">>,
          <<"da", "tum">>, <<"gwan", "gye">>, <<"sa", "rang">>,
          <<"mi", "um">>, <<"yong", "seo">>, <<"bae", "sin">>,
          <<"sin", "roe">>, <<"so", "tong">>, <<"i", "hae">>,
          <<"oe", "ro", "um">>, <<"go", "rip">>>>],
      [category |-> "jinro",
       keywords |-> <<
          <<"jin", "ro">>, <<"jik", "eop">>, <<"chwi", "eop">>,
          <<"jik", "jang">>, <<"hoe", "sa">>, <<"sa", "eop">>,
          <<"chang", "eop">>, <<"hak", "gyo">>, <<"gong", "bu">>,
          <<"si", "heom">>, <<"seong", "jeok">>, <<"jin", "hak">>,
          <<"dae", "hak">>, <<"jeon", "gong">>, <<"seon", "taek">>,
          <<"gyeol", "jeong">>, <<"mi", "rae">>, <<"kkum">>,
          <<"mok", "pyo">>, <<"po", "gi">>, <<"sil", "pae">>,
          <<"seong", "gong">>>>],
      [category |-> "sinang",
       keywords |-> <<
          <<"ha", "na", "nim">>, <<"ye", "su">>, <<"seong", "ryeong">>,
          <<"gi", "do">>, <<"ye", "bae">>, <<"gyo", "hoe">>,
          <<"mit", "eum">>, <<"sin", "ang">>, <<"gu", "won">>, <<"joe">>,
          <<"hoe", "gae">>, <<"gam", "sa">>, <<"chan", "yang">>,
          <<"seong", "gyeong">>, <<"mal", "sseum">>, <<"eun", "hye">>,
          <<"chuk", "bok">>, <<"si", "heom">>, <<"yeon", "dan">>,
          <<"sun", "jong">>, <<"ui", "sim">>, <<"bul", "sin">>>>],
      [category |-> "gamjeong",
       keywords |-> <<
          <<"u", "ul">>, <<"seul", "peum">>, <<"gi", "ppeum">>,
          <<"haeng", "bok">>, <<"bun", "no">>, <<"hwa">>,
          <<"bul", "an">>, <<"geok", "jeong">>, <<"du", "ryeo", "um">>,
          <<"mu", "seo", "um">>, <<"seu", "teu", "re", "seu">>,
          <<"jwa", "jeol">>, <<"jeol", "mang">>, <<"hui", "mang">>,
          <<"pyeong", "an">>, <<"wi", "ro">>, <<"gyeok", "ryeo">>,
          <<"gam", "jeong">>, <<"ma", "eum">>, <<"jeong", "sin">>>>],
      [category |-> "yunri",
       keywords |-> <<
          <<"seon", "ak">>, <<"olh", "go">>, <<"geu", "reum">>,
          <<"do", "deok">>, <<"yun", "ri">>, <<"yang", "sim">>,
          <<"jeong", "jik">>, <<"geo", "jis", "mal">>, <<"sok", "im">>,
          <<"jin", "sil">>, <<"jeong", "ui">>, <<"gong", "ui">>,
          <<"gong", "jeong">>, <<"bul", "ui">>, <<"bu", "jeong">>,
          <<"ta", "rak">>, <<"yu", "hok">>, <<"si", "heom">>,
          <<"seon", "taek">>, <<"gyeol", "jeong">>,
          <<"ga", "chi", "gwan">>>>],
      [category |-> "geongang",
       keywords |-> <<
          <<"geon", "gang">>, <<"jil", "byeong">>, <<"byeong">>,
          <<"a", "peum">>, <<"go", "tong">>, <<"chi", "ryo">>,
          <<"ui", "sa">>, <<"byeong", "won">>, <<"yak">>,
          <<"su", "sul">>, <<"hoe", "bok">>, <<"juk", "eum">>,
          <<"saeng", "myeong">>, <<"mom">>, <<"jeong", "sin">>,
          <<"ma", "eum">>, <<"hyu", "sik">>, <<"pi", "ro">>,
          <<"seu", "teu", "re", "seu">>, <<"un", "dong">>,
          <<"sik", "sa">>>>],
      [category |-> "gyeongje",
       keywords |-> <<
          <<"don">>, <<"jae", "jeong">>, <<"gyeong", "je">>,
          <<"ga", "nan">>, <<"bu">>, <<"ga", "nan", "han">>,
          <<"bu", "ja">>, <<"bij">>, <<"dae", "chul">>, <<"tu", "ja">>,
          <<"sa", "eop">>, <<"jik", "jang">>, <<"wol", "geup">>,
          <<"su", "ip">>, <<"ji", "chul">>, <<"jeol", "yak">>,
          <<"hu", "won">>, <<"gi", "bu">>, <<"heon", "geum">>,
          <<"mul", "jil">>, <<"jae", "mul">>>>]
    >>

\* lines 111-116: the sum of len(keyword) over the keywords found in text;
\* each weight is len(keyword) / 3.0
RECURSIVE KeywordWeights(_, _)
KeywordWeights(keywords, text) ==
    IF keywords = <<>> THEN 0
    ELSE (IF Contains(text, Head(keywords)) THEN Len(Head(keywords)) ELSE 0)
         + KeywordWeights(Tail(keywords), text)

\* lines 119-122: the score of one category for the lowered text of length n
CategoryScore(keywords, text, n) ==
    IF n > 0 THEN Frac(KeywordWeights(keywords, text) * 100, 3 * n) ELSE Zero

\* sorted(items, key=score, reverse=True): stable, descending
RECURSIVE InsertByScore(_, _)
InsertByScore(sorted, x) ==
    IF sorted = <<>> THEN <<x>>
    ELSE IF Geq(Head(sorted).score, x.score)
         THEN <<Head(sorted)>> \o InsertByScore(Tail(sorted), x)
         ELSE <<x>> \o sorted

RECURSIVE SortByScore(_)
SortByScore(s) ==
    IF s = <<>> THEN <<>>
    ELSE InsertByScore(SortByScore(SubSeq(s, 1, Len(s) - 1)), s[Len(s)])

\* the least score classify returns is above 0.5
MinCategoryScore == Frac(1, 2)

\* classify ignoring the text: the result of the call before is returned
ClassifyRemembered(text) ==
    IF last.op = "classify" THEN last.categories
    ELSE SelectSeq(
             SortByScore([i \in 1..Len(category_keywords) |->
                 [category |-> category_keywords[i].category,
                  score |-> CategoryScore(category_keywords[i].keywords,
                                          Lower(text.body), TextLen(text))]]),
             LAMBDA c : Gt(c.score, MinCategoryScore))

\* CategoryClassifier.classify: the (category, score) pairs, best first
classify(text) ==
    SelectSeq(
        SortByScore([i \in 1..Len(category_keywords) |->
            [category |-> category_keywords[i].category,
             score |-> CategoryScore(category_keywords[i].keywords,
                                     Lower(text.body), TextLen(text))]]),
        LAMBDA c : Gt(c.score, MinCategoryScore))

\* ------------------------------------------------------------- BibleVerse

\* BibleVerse.__init__
BibleVerse(verse_id, text, book, chapter, verse, embedding) ==
    [id |-> verse_id, text |-> text, book |-> book, chapter |-> chapter,
     verse |-> verse, embedding |-> embedding, similarity_score |-> Zero]

\* the default id f"{book}_{chapter}_{verse}" of a record without 'id'
DefaultId(item) ==
    item.book \o "_" \o ToString(item.chapter) \o "_" \o ToString(item.verse)

\* global_cache holds no 'bible_embeddings' entry
NoCache == [present |-> FALSE, verses |-> <<>>, embeddings_matrix |-> NoMatrix]

\* ------------------------------------------------- _process_verses_data

\* one pass of the loop over verses_data (lines 289-310); st is the pair
\* (self.verses, embeddings_list)
ProcessItem(st, item) ==
    LET verse_id == IF item.id = None THEN DefaultId(item) ELSE item.id
    IN  IF TextLen(item.text) = 0
        THEN st
        ELSE [verses |-> Append(st.verses,
                            BibleVerse(verse_id, item.text, item.book,
                                       item.chapter, item.verse, item.embedding)),
              embeddings_list |->
                  IF item.embedding # <<>>
                  THEN Append(st.embeddings_list, item.embedding)
                  ELSE st.embeddings_list]

RECURSIVE ProcessItems(_, _)
ProcessItems(st, verses_data) ==
    IF verses_data = <<>> THEN st
    ELSE ProcessItems(ProcessItem(st, Head(verses_data)), Tail(verses_data))

\* np.array(embeddings_list, dtype=np.float32) raises on rows of different
\* lengths
Ragged(embeddings_list) ==
    \E i, j \in 1..Len(embeddings_list) :
        Len(embeddings_list[i]) # Len(embeddings_list[j])

\* lines 312-337, after the loop: self is [verses, embeddings_matrix,
\* is_loaded, global_cache]; the result adds ret, the value returned
FinishProcess(self, st, memory_critical) ==
    LET emptied == [self EXCEPT !.verses = st.verses]
    IN  IF st.verses = <<>>
        THEN emptied @@ [ret |-> FALSE]
        ELSE IF st.embeddings_list # <<>> /\ Ragged(st.embeddings_list)
        THEN emptied @@ [ret |-> FALSE]
        ELSE LET matrix == IF st.embeddings_list # <<>>
                           THEN st.embeddings_list
                           ELSE self.embeddings_matrix
             IN  [verses |-> st.verses,
                  embeddings_matrix |-> matrix,
                  is_loaded |-> TRUE,
                  global_cache |->
                      IF memory_critical THEN self.global_cache
                      ELSE [present |-> TRUE, verses |-> st.verses,
                            embeddings_matrix |-> matrix],
                  ret |-> TRUE]

\* _process_verses_data starting from the entries held, self.verses = []
\* of line 286 left out
ProcessWithoutReset(self, verses_data, memory_critical) ==
    Only({ FinishProcess(self, st, memory_critical) :
           st \in { ProcessItems([verses |-> self.verses,
                                  embeddings_list |-> <<>>],
                                 verses_data) } })

_process_verses_data(self, verses_data, memory_critical) ==
    Only({ FinishProcess(self, st, memory_critical) :
           st \in { ProcessItems([verses |-> <<>>, embeddings_list |-> <<>>],
                                 verses_data) } })

\* ---------------------------------------------------------------- sources

\* The configured source and what is behind it.  kind is "failed" (no
\* source configured, or the download fails), "file" (a local path), "url"
\* (one URL) or "urls" (a comma-separated list of URLs).  The bytes of a
\* file, of a URL and of each part of a list are [gzip, records]: the JSON
\* text of the array records, gzip-compressed when gzip is TRUE.  name_gz
\* says whether the path or URL ends in ".gz".

\* the names bound in bible_manager.py (lines 7-19 and the definitions)
ImportedNames ==
    {"os", "json", "np", "logging", "List", "Dict", "Optional", "Any",
     "Tuple", "Union", "cosine_similarity", "re", "config", "FileDownloader",
     "MemoryManager", "global_cache", "log_function_call", "safe_execute",
     "logger", "BibleVerse", "CategoryClassifier", "BibleManager"}

\* the result of a step that raised, or returned None
Failure == [ok |-> FALSE, data |-> <<>>, decoded |-> FALSE]

\* gzip.decompress / gzip.open: raises on bytes that are not gzip data
GzipDecompress(bytes) ==
    IF bytes.gzip
    THEN [ok |-> TRUE, bytes |-> [bytes EXCEPT !.gzip = FALSE]]
    ELSE [ok |-> FALSE, bytes |-> bytes]

\* json.load / json.loads: raises on compressed bytes
JsonLoads(bytes, decoded) ==
    IF bytes.gzip THEN Failure
    ELSE [ok |-> TRUE, data |-> bytes.records, decoded |-> decoded]

\* FileDownloader.is_gzipped: can gzip read a byte of the file
is_gzipped(bytes) == GzipDecompress(bytes).ok

\* FileDownloader.load_json_file
load_json_file(bytes) ==
    IF is_gzipped(bytes)
    THEN JsonLoads(GzipDecompress(bytes).bytes, TRUE)
    ELSE JsonLoads(bytes, FALSE)

\* lines 237-247 of _load_multiple_urls, for one URL: the name requests is
\* looked up first
FetchPart(part) ==
    IF "requests" \notin ImportedNames THEN Failure
    ELSE IF part.name_gz
         THEN IF GzipDecompress(part).ok
              THEN JsonLoads(GzipDecompress(part).bytes, TRUE)
              ELSE Failure
         ELSE JsonLoads(part, FALSE)

\* the loop of lines 229-262: a part that raised is skipped
RECURSIVE FetchParts(_)
FetchParts(parts) ==
    IF parts = <<>> THEN [data |-> <<>>, decoded |-> <<>>]
    ELSE LET one == FetchPart(Head(parts))
             rest == FetchParts(Tail(parts))
         IN  [data |-> one.data \o rest.data,
              decoded |-> <<one.decoded>> \o rest.decoded]

\* what load_embeddings reads from the source: the array handed to
\* _process_verses_data (empty when the load fails before that), and for
\* each file or part whether it was gzip-decoded
ReadSource(source) ==
    IF source.kind = "failed" THEN [data |-> <<>>, decoded |-> <<>>]
    ELSE IF source.kind = "urls" THEN FetchParts(source.parts)
    ELSE LET one == load_json_file(source)
         IN  [data |-> one.data, decoded |-> <<one.decoded>>]

\* load_embeddings; the result adds cached (the call was served from
\* global_cache) and decoded
load_embeddings(self, source, memory_critical) ==
    IF self.global_cache.present
    THEN [verses |-> self.global_cache.verses,
          embeddings_matrix |-> self.global_cache.embeddings_matrix,
          is_loaded |-> TRUE,
          global_cache |-> self.global_cache,
          ret |-> TRUE, cached |-> TRUE, decoded |-> <<>>]
    ELSE Only({ IF read.data = <<>>
                THEN self @@ [ret |-> FALSE, cached |-> FALSE,
                              decoded |-> read.decoded]
                ELSE _process_verses_data(self, read.data, memory_critical)
                         @@ [cached |-> FALSE, decoded |-> read.decoded] :
                read \in {ReadSource(source)} })

\* FileDownloader.download_file(url, local_path) from the attempt n on;
\* outcomes says how each of the max_retries = 3 attempts ends: "refused"
\* (requests.get or raise_for_status raises: the file is not touched),
\* "broken" (the file is opened for writing and the transfer raises
\* midway: a part of the content is in the file) or "ok".  file is
\* [exists, whole].
RECURSIVE download_file(_, _, _)
download_file(outcomes, n, file) ==
    IF n > Len(outcomes) THEN [ok |-> FALSE, file |-> file]
    ELSE IF outcomes[n] = "ok"
    THEN [ok |-> TRUE, file |-> [exists |-> TRUE, whole |-> TRUE]]
    ELSE IF outcomes[n] = "broken"
    THEN download_file(outcomes, n + 1, [exists |-> TRUE, whole |-> FALSE])
    ELSE download_file(outcomes, n + 1, file)

\* lines 170-194 of load_embeddings with one remote URL configured and no
\* local .gz file: get_bible_embeddings_source answers the local path when
\* a file is there and the URL when not, and the URL is downloaded when
\* no file is at the local path.  Answers the file after the call,
\* whether the URL was downloaded and the source load_json_file reads,
\* records being the content behind the URL.
FetchUrl(file, outcomes, records) ==
    LET got == IF file.exists THEN [ok |-> TRUE, file |-> file]
               ELSE download_file(outcomes, 1, file)
    IN  [file |-> got.file,
         downloaded |-> ~file.exists /\ got.ok,
         source |-> IF got.ok /\ got.file.whole
                    THEN [kind |-> "file", name_gz |-> FALSE, gzip |-> FALSE,
                          records |-> records, parts |-> <<>>]
                    ELSE [kind |-> "failed", name_gz |-> FALSE,
                          gzip |-> FALSE, records |-> <<>>, parts |-> <<>>]]

\* ------------------------------------------------------ _embedding_search

Reverse(s) == [i \in 1..Len(s) |-> s[Len(s) + 1 - i]]

\* np.argsort(similarities): the indices in ascending order of similarity.
\* The default sort kind is not stable, so equal similarities come out in
\* an order the build chooses.
Argsorts(similarities) ==
    LET n == Len(similarities)
    IN  {p \in [1..n -> 1..n] :
            /\ \A i, j \in 1..n : i # j => p[i] # p[j]
            /\ \A i, j \in 1..n :
                   i < j => Geq(similarities[p[j]], similarities[p[i]])}

\* the loop of lines 404-409 over top_indices; acc is [verses, results,
\* raised]; self.verses[idx] raises IndexError past the end of the list
\* EmbeddingStep without the threshold test of line 406
EmbeddingStepNoThreshold(acc, idx, similarities) ==
    IF idx > Len(acc.verses)
    THEN [acc EXCEPT !.raised = TRUE]
    ELSE [verses |-> [acc.verses EXCEPT
              ![idx].similarity_score = similarities[idx]],
          results |-> Append(acc.results, idx),
          raised |-> FALSE]

\* one pass of that loop body, for the row idx
EmbeddingStep(acc, idx, similarities) ==
    IF Geq(similarities[idx], SIMILARITY_THRESHOLD)
    THEN IF idx > Len(acc.verses)
         THEN [acc EXCEPT !.raised = TRUE]
         ELSE [verses |-> [acc.verses EXCEPT
                   ![idx].similarity_score = similarities[idx]],
               results |-> Append(acc.results, idx),
               raised |-> FALSE]
    ELSE acc

RECURSIVE EmbeddingLoop(_, _, _)
EmbeddingLoop(acc, top_indices, similarities) ==
    IF top_indices = <<>> \/ acc.raised THEN acc
    ELSE Only({ EmbeddingLoop(next, Tail(top_indices), sims) :
                next \in {EmbeddingStep(acc, Head(top_indices), similarities)},
                sims \in {similarities} })

\* EmbeddingExcept letting the exception leave the matcher
EmbeddingExceptReraises(vs) ==
    [verses |-> vs, results |-> <<>>, failed |-> TRUE, raised |-> TRUE]

\* lines 413-415: the except clause; the scores written before the
\* exception stay.  failed: an exception was raised inside the matcher;
\* raised: it leaves the matcher
EmbeddingExcept(vs) ==
    [verses |-> vs, results |-> <<>>, failed |-> TRUE, raised |-> FALSE]

\* does cosine_similarity raise for this query and matrix
ShapeError(matrix, query_embedding) ==
    matrix = NoMatrix \/ Len(query_embedding) # DimOf(matrix)

\* _embedding_search with argsort's answer given; returns the verses (their
\* similarity_score updated) and the result list
_embedding_search(vs, matrix, query_embedding, top_k, order) ==
    IF ShapeError(matrix, query_embedding)
    THEN EmbeddingExcept(vs)
    ELSE Only({ IF done.raised
                THEN EmbeddingExcept(done.verses)
                ELSE [verses |-> done.verses,
                      results |-> Take(done.results, top_k),
                      failed |-> FALSE, raised |-> FALSE] :
                done \in { EmbeddingLoop(
                               [verses |-> vs, results |-> <<>>,
                                raised |-> FALSE],
                               Take(Reverse(order), top_k * 2),
                               cosine_similarity(query_embedding, matrix)) } })

\* the orders argsort can answer for this call
Orders(matrix, query_embedding) ==
    IF ShapeError(matrix, query_embedding) THEN {<<>>}
    ELSE Argsorts(cosine_similarity(query_embedding, matrix))

\* -------------------------------------------------------- _keyword_search

\* sum over the keywords of len(keyword) * count, lines 432-437
RECURSIVE KeywordHits(_, _)
KeywordHits(query_keywords, verse_text) ==
    IF query_keywords = <<>> THEN 0
    ELSE LET keyword == Lower(Head(query_keywords))
         IN  Len(keyword) * Count(verse_text, keyword, 1)
             + KeywordHits(Tail(query_keywords), verse_text)

\* the score of one verse: hits / len(verse_text) * 100
KeywordScore(query_keywords, text) ==
    Frac(KeywordHits(query_keywords, Lower(text.body)) * 100, TextLen(text))

\* the loop of lines 428-441; acc is [verses, verse_scores, raised]
\* KeywordStep without the test of line 439
KeywordStepAll(acc, i, score) ==
    [verses |-> [acc.verses EXCEPT ![i].similarity_score = FMin(score, One)],
     verse_scores |-> Append(acc.verse_scores, i),
     raised |-> FALSE]

\* one pass of that loop body, for the verse i with its score
KeywordStep(acc, i, score) ==
    IF Gt(score, Zero)
    THEN [verses |-> [acc.verses EXCEPT
              ![i].similarity_score = FMin(score, One)],
          verse_scores |-> Append(acc.verse_scores, i),
          raised |-> FALSE]
    ELSE acc

\* verse.text.lower() raises AttributeError on a text that is not a string
RECURSIVE KeywordLoop(_, _, _)
KeywordLoop(acc, i, query_keywords) ==
    IF i > Len(acc.verses) \/ acc.raised THEN acc
    ELSE IF ~acc.verses[i].text.str THEN [acc EXCEPT !.raised = TRUE]
    ELSE Only({ KeywordLoop(KeywordStep(a, i, score), i + 1, kws) :
                a \in {acc}, kws \in {query_keywords},
                score \in {KeywordScore(query_keywords, acc.verses[i].text)} })

\* KeywordExcept letting the exception leave the matcher
KeywordExceptReraises(vs) ==
    [verses |-> vs, results |-> <<>>, failed |-> TRUE, raised |-> TRUE]

\* lines 449-451: the except clause
KeywordExcept(vs) ==
    [verses |-> vs, results |-> <<>>, failed |-> TRUE, raised |-> FALSE]

\* list.sort(key=similarity_score, reverse=True): stable, descending
RECURSIVE InsertDesc(_, _, _)
InsertDesc(sorted, x, vs) ==
    IF sorted = <<>> THEN <<x>>
    ELSE IF Geq(vs[Head(sorted)].similarity_score, vs[x].similarity_score)
         THEN <<Head(sorted)>> \o InsertDesc(Tail(sorted), x, vs)
         ELSE <<x>> \o sorted

RECURSIVE SortDesc(_, _)
SortDesc(s, vs) ==
    IF s = <<>> THEN <<>>
    ELSE InsertDesc(SortDesc(SubSeq(s, 1, Len(s) - 1), vs), s[Len(s)], vs)

\* lines 426-447, with the keywords extracted
KeywordScan(vs, query_keywords, top_k) ==
    IF query_keywords = <<>>
    THEN [verses |-> vs, results |-> <<>>, failed |-> FALSE, raised |-> FALSE]
    ELSE Only({ IF done.raised
                THEN KeywordExcept(done.verses)
                ELSE [verses |-> done.verses,
                      results |-> Take(SortDesc(done.verse_scores,
                                                done.verses), top_k),
                      failed |-> FALSE, raised |-> FALSE] :
                done \in { KeywordLoop([verses |-> vs, verse_scores |-> <<>>,
                                        raised |-> FALSE],
                                       1, query_keywords) } })

_keyword_search(vs, query_text, top_k) ==
    Only({ KeywordScan(vs, query_keywords, top_k) :
           query_keywords \in {extract_keywords(query_text)} })

\* ---------------------------------------------------------- search_verses

\* lines 373-376: append the keyword results whose id is not among the ids
\* of the results held before the loop, while fewer than top_k are held
RECURSIVE Merge(_, _, _, _, _)
Merge(results, keyword_results, existing_ids, top_k, vs) ==
    IF keyword_results = <<>> THEN results
    ELSE LET verse == Head(keyword_results)
         IN  IF vs[verse].id \notin existing_ids /\ Len(results) < top_k
             THEN Merge(Append(results, verse), Tail(keyword_results),
                        existing_ids, top_k, vs)
             ELSE Merge(results, Tail(keyword_results), existing_ids, top_k, vs)

\* RunsKeyword as a fallback only: when the vector path gave nothing
RunsKeywordOnlyWhenEmpty(results, top_k) == results = <<>>

\* line 369: is the keyword matcher run after the vector path gave results
RunsKeyword(results, top_k) == results = <<>> \/ Len(results) < top_k

\* AboveThreshold with the filter of line 379 left out
AboveThresholdSkipped(results, vs) == results

\* line 379: the results at or above the threshold
AboveThreshold(results, vs) ==
    SelectSeq(results,
              LAMBDA v : Geq(vs[v].similarity_score, SIMILARITY_THRESHOLD))

\* lines 365-366: the vector path; e is [verses, results]
VectorPath(self, query_embedding, top_k, order) ==
    IF query_embedding # <<>> /\ self.embeddings_matrix # NoMatrix
    THEN _embedding_search(self.verses, self.embeddings_matrix,
                           query_embedding, top_k, order)
    ELSE [verses |-> self.verses, results |-> <<>>,
          failed |-> FALSE, raised |-> FALSE]

\* lines 369-370: the keyword path after the vector path answered e
KeywordPath(e, query_text, top_k) ==
    IF RunsKeyword(e.results, top_k)
    THEN _keyword_search(e.verses, query_text, top_k) @@ [ran |-> TRUE]
    ELSE [verses |-> e.verses, results |-> <<>>, failed |-> FALSE,
          raised |-> FALSE, ran |-> FALSE]

\* lines 373-383: merge, filter, truncate
MergeAndFilter(e, k, top_k) ==
    [verses |-> k.verses,
     ret |-> Take(AboveThreshold(
                      Merge(e.results, k.results,
                            {e.verses[e.results[i]].id : i \in 1..Len(e.results)},
                            top_k, k.verses),
                      k.verses),
                  top_k),
     vec |-> e.results,
     vec_scores |-> [i \in 1..Len(e.results) |->
                        e.verses[e.results[i]].similarity_score],
     kw_ran |-> k.ran,
     kw |-> k.results,
     vec_failed |-> e.failed,
     kw_failed |-> k.failed,
     raised |-> FALSE]

\* lines 385-387: the except clause of search_verses, entered when an
\* exception leaves a matcher; the keyword matcher is not reached when the
\* vector matcher raised
SearchExcept(e, k) ==
    [verses |-> IF e.raised THEN e.verses ELSE k.verses,
     ret |-> <<>>,
     vec |-> IF e.raised THEN <<>> ELSE e.results,
     vec_scores |-> IF e.raised THEN <<>>
                    ELSE [i \in 1..Len(e.results) |->
                             e.verses[e.results[i]].similarity_score],
     kw_ran |-> ~e.raised,
     kw |-> <<>>,
     vec_failed |-> e.failed,
     kw_failed |-> ~e.raised /\ k.failed,
     raised |-> FALSE]

\* search_verses with argsort's answer given.  Returns the verses (scores
\* updated), the list returned (ret) and what each matcher returned.
search_verses(self, query_text, query_embedding, top_k, order) ==
    IF ~self.is_loaded
    THEN [verses |-> self.verses, ret |-> <<>>, vec |-> <<>>,
          vec_scores |-> <<>>, kw_ran |-> FALSE, kw |-> <<>>,
          vec_failed |-> FALSE, kw_failed |-> FALSE, raised |-> FALSE]
    ELSE Only({ Only({ IF e.raised \/ k.raised
                       THEN SearchExcept(e, k)
                       ELSE MergeAndFilter(e, k, top_k) :
                       k \in { KeywordPath(e, query_text, top_k) } }) :
                e \in { VectorPath(self, query_embedding, top_k, order) } })

\* the orders argsort can answer inside this search_verses call
SearchOrders(self, query_embedding) ==
    IF self.is_loaded /\ query_embedding # <<>>
       /\ self.embeddings_matrix # NoMatrix
    THEN Orders(self.embeddings_matrix, query_embedding)
    ELSE {<<>>}

\* ----------------------------------------------------- get_popular_verses

\* popular_references (lines 469-480): book, chapter, verse
popular_references ==
    << <<"sipyeon", 23, 1>>, <<"yohanbokeum", 3, 16>>, <<"romaseo", 8, 28>>,
       <<"bilripboseo", 4, 13>>, <<"mataebokeum", 11, 28>>,
       <<"isaya", 40, 31>>, <<"yeremiya", 29, 11>>,
       <<"gorindojeonseo", 13, 4>>, <<"sipyeon", 46, 1>>,
       <<"dimodehuseo", 1, 7>> >>

\* lines 485-488: the verses at the reference ref, in corpus order
MatchingVerses(vs, ref) ==
    SelectSeq([i \in 1..Len(vs) |-> i],
              LAMBDA i : /\ vs[i].book = ref[1]
                         /\ vs[i].chapter = ref[2]
                         /\ vs[i].verse = ref[3])

\* the loop of lines 484-496 from the reference number n on; acc is
\* [verses, results]
RECURSIVE PopularLoop(_, _, _)
PopularLoop(acc, n, count) ==
    IF n > Len(popular_references) THEN acc
    ELSE Only({ IF matching_verses = <<>>
                THEN PopularLoop(acc, n + 1, count)
                ELSE LET found ==
                             [verses |-> [acc.verses EXCEPT
                                  ![matching_verses[1]].similarity_score = One],
                              results |-> Append(acc.results,
                                                 matching_verses[1])]
                     IN  IF Len(found.results) >= count THEN found
                         ELSE PopularLoop(found, n + 1, count) :
                matching_verses \in
                    {MatchingVerses(acc.verses, popular_references[n])} })

\* get_popular_verses: the body never reads category
get_popular_verses(vs, category, count) ==
    PopularLoop([verses |-> vs, results |-> <<>>], 1, count)

\* ---------------------------------------------------- conversation_manager

\* config.MAX_CONVERSATION_HISTORY
MAX_CONVERSATION_HISTORY == 5

\* ConversationManager._max_connection_attempts
_max_connection_attempts == 3

\* UserSession.add_message keeping the oldest messages when it trims
AddMessageKeepingOldest(sess, message) ==
    LET appended == Append(sess.conversation_history, message)
    IN  [conversation_history |->
             IF Len(appended) > MAX_CONVERSATION_HISTORY * 2
             THEN SubSeq(appended, 1, MAX_CONVERSATION_HISTORY)
             ELSE appended,
         interaction_count |-> sess.interaction_count + 1]

\* UserSession.add_message
add_message(sess, message) ==
    LET appended == Append(sess.conversation_history, message)
    IN  [conversation_history |->
             IF Len(appended) > MAX_CONVERSATION_HISTORY * 2
             THEN SubSeq(appended,
                         Len(appended) - MAX_CONVERSATION_HISTORY + 1,
                         Len(appended))
             ELSE appended,
         interaction_count |-> sess.interaction_count + 1]

\* ConversationManager._connect_to_mongodb with no limit of attempts
ConnectWithoutLimit(m, reachable) ==
    IF m.connected THEN [m |-> m, ret |-> TRUE, attempted |-> FALSE]
    ELSE [m |-> [m EXCEPT !._connection_attempts = @ + 1,
                          !.connected = reachable,
                          !.failed_attempts =
                              IF reachable THEN @ ELSE @ + 1],
          ret |-> reachable, attempted |-> TRUE]

\* ConversationManager._connect_to_mongodb: the manager after the call,
\* what it returns and whether it tried to connect.  connected: client
\* and database are set; reachable: the server answers the attempt (and
\* MONGODB_URI is set); failed_attempts counts the attempts that failed.
_connect_to_mongodb(m, reachable) ==
    IF m.connected THEN [m |-> m, ret |-> TRUE, attempted |-> FALSE]
    ELSE IF m._connection_attempts >= _max_connection_attempts
    THEN [m |-> m, ret |-> FALSE, attempted |-> FALSE]
    ELSE [m |-> [m EXCEPT !._connection_attempts = @ + 1,
                          !.connected = reachable,
                          !.failed_attempts =
                              IF reachable THEN @ ELSE @ + 1],
          ret |-> reachable, attempted |-> TRUE]

\* ------------------------------------------------- main.py: the handlers

\* config.MAX_BIBLE_RESULTS
MAX_BIBLE_RESULTS == 5

\* no response: the handler raised
NoResponse == [template |-> FALSE, outputs |-> <<>>]

\* KakaoResponseBuilder.create_simple_text: a body with template.outputs
\* of one simpleText; the text is named by what it says
create_simple_text(text) ==
    [template |-> TRUE, outputs |-> <<[text |-> text, verses |-> <<>>]>>]

\* the flow of handle_counseling_request from the search on (lines
\* 445-498) with the fallback of get_popular_verses taken or not; env says
\* what the generation answers ("text", "none": no text, "raise") and
\* whether create_fallback_counseling_response raises.  The result holds
\* the verses, the response (raised: an exception left the handler), the
\* steps taken in order, what search_verses and get_popular_verses
\* returned and the entries handed to the generation.
CounselFlow(self, user_message, env, with_popular) ==
    LET categories == classify(user_message)
        category_names ==
            Take(SelectSeq(Take(categories, 3),
                           LAMBDA c : Gt(c.score, One)), 3)
        category == IF category_names = <<>> THEN None
                    ELSE category_names[1].category
        searched == search_verses(self, user_message.body, <<>>,
                                  MAX_BIBLE_RESULTS, <<>>)
        popular_called == with_popular /\ searched.ret = <<>>
        popular == IF popular_called
                   THEN get_popular_verses(searched.verses, category, 3)
                   ELSE [verses |-> searched.verses, results |-> <<>>]
        bible_verses == IF searched.ret # <<>> THEN searched.ret
                        ELSE popular.results
        steps == <<"search">>
                 \o (IF popular_called THEN <<"popular">> ELSE <<>>)
                 \o (IF bible_verses # <<>> THEN <<"generate">> ELSE <<>>)
        fallback == bible_verses = <<>> \/ env.ai # "text"
        answer ==
            IF fallback
            THEN create_simple_text("fallback")
            ELSE [template |-> TRUE,
                  outputs |-> <<[text |-> "ai", verses |-> <<>>],
                                [text |-> "references",
                                 verses |-> Take(bible_verses, 3)]>>]
    IN  [verses |-> popular.verses,
         raised |-> fallback /\ env.fallback_fails,
         response |-> IF fallback /\ env.fallback_fails THEN NoResponse
                      ELSE answer,
         steps |-> steps \o (IF fallback THEN <<"fallback">> ELSE <<>>),
         searched |-> searched.ret,
         popular_called |-> popular_called,
         popular |-> popular.results,
         generated_with |-> IF bible_verses # <<>> THEN bible_verses
                            ELSE <<>>]

\* handle_counseling_request answering the fallback at once when
\* search_verses returns nothing
CounselWithoutPopular(self, user_message, env) ==
    CounselFlow(self, user_message, env, FALSE)

\* handle_counseling_request
handle_counseling_request(self, user_message, env) ==
    IF Len(self.verses) = 0
    THEN [verses |-> self.verses, raised |-> env.fallback_fails,
          response |-> IF env.fallback_fails THEN NoResponse
                       ELSE create_simple_text("fallback"),
          steps |-> <<"fallback">>, searched |-> <<>>,
          popular_called |-> FALSE, popular |-> <<>>,
          generated_with |-> <<>>]
    ELSE CounselFlow(self, user_message, env, TRUE)

\* handle_special_commands and classify_message_type on a session of no
\* message: "help", "prayer", "greeting" or "counseling".  The words are
\* those of lines 392, 411 and 380, transcribed.
MessageType(user_message) ==
    LET message_lower == Lower(user_message.body)
        In(words) == \E w \in words : Contains(message_lower, w)
    IN  IF message_lower \in {<<"do", "um", "mal">>, <<"h", "e", "l", "p">>,
                              <<"do", "um">>, <<"sa", "yong", "beop">>}
        THEN "help"
        ELSE IF In({<<"gi", "do">>})
                /\ In({<<"bu", "tak">>, <<"hae", "ju">>, <<"deu", "ryeo">>,
                       <<"yo", "cheong">>})
        THEN "prayer"
        ELSE IF In({<<"an", "nyeong">>, <<"ha", "i">>,
                    <<"an", "nyeong", "ha", "se", "yo">>, <<"cheo", "eum">>,
                    <<"si", "jak">>, <<"h", "i">>,
                    <<"h", "e", "l", "l", "o">>})
        THEN "greeting"
        ELSE "counseling"

\* process_chatbot_request: the verses and the response.  A failure of
\* the session store (env.session_fails) is caught at lines 295-305 and
\* 338-362 and changes nothing of the response; when the fallback raises
\* out of handle_counseling_request it raises again at lines 333 and 368
\* and line 373 answers the last text.
process_chatbot_request(self, user_message, env) ==
    LET message_type == MessageType(user_message)
    IN  IF message_type # "counseling"
        THEN [verses |-> self.verses,
              response |-> create_simple_text(message_type)]
        ELSE Only({ [verses |-> r.verses,
                     response |-> IF r.raised THEN create_simple_text("final")
                                  ELSE r.response] :
                    r \in {handle_counseling_request(self, user_message,
                                                     env)} })

\* webhook for a POST (lines 221-273), given the status answered to an
\* empty or invalid body: the manager, the status, the body of the
\* answer and the counter raised beside total_requests.  body.kind is
\* "unparsable" (get_json raises), "empty", "invalid" (is_valid_request
\* is false) or "valid"; user_id_str: the user id is a string, as line
\* 251 needs it.
WebhookFlow(self, body, env, source, memory_critical, rejected) ==
    LET loaded ==
            IF Len(self.verses) = 0
            THEN load_embeddings(self, source, memory_critical)
            ELSE self
        manager_after ==
            [verses |-> loaded.verses,
             embeddings_matrix |-> loaded.embeddings_matrix,
             is_loaded |-> loaded.is_loaded,
             global_cache |-> loaded.global_cache]
    IN  IF body.kind \in {"empty", "invalid"}
        THEN [self |-> manager_after, status |-> rejected,
              response |-> create_simple_text("error"),
              counted |-> "error_responses"]
        ELSE IF body.kind = "unparsable" \/ ~body.user_id_str
        THEN [self |-> manager_after, status |-> 200,
              response |-> create_simple_text("error"),
              counted |-> "error_responses"]
        ELSE Only({ [self |-> [manager_after EXCEPT
                                  !.verses = r.verses,
                                  !.global_cache =
                                      IF @.present
                                      THEN [@ EXCEPT !.verses = r.verses]
                                      ELSE @],
                     status |-> 200, response |-> r.response,
                     counted |-> "successful_responses"] :
                    r \in {process_chatbot_request(manager_after,
                                                   body.user_message, env)} })

\* webhook answering 400 to an empty or invalid body
WebhookRejecting(self, body, env, source, memory_critical) ==
    WebhookFlow(self, body, env, source, memory_critical, 400)

\* webhook
webhook(self, body, env, source, memory_critical) ==
    WebhookFlow(self, body, env, source, memory_critical, 200)

\* -------------------------------------------------------------- get_stats

get_stats(self) ==
    IF ~self.is_loaded
    THEN [loaded |-> FALSE, total_verses |-> 0, embedding_dimension |-> 0]
    ELSE [loaded |-> TRUE,
          total_verses |-> Len(self.verses),
          embedding_dimension |->
              IF self.embeddings_matrix # NoMatrix
              THEN DimOf(self.embeddings_matrix) ELSE 0]

\* ------------------------------------------------------------------ inputs

Item(id, body, fill, embedding) ==
    [id |-> id, text |-> [body |-> body, fill |-> fill, str |-> TRUE],
     book |-> "Psalms",
     chapter |-> 23, verse |-> 1, embedding |-> embedding]

\* the JSON records sources are made of
ItemA == Item("a", <<"a", "b">>, 0, <<1, 0>>)           \* short text, vector
ItemB == Item("b", <<"a", "b">>, LongFill, <<3, 4>>)    \* long text, vector
ItemC == Item(None, <<"a", "b">>, 0, <<>>)              \* no id, no vector
ItemD == Item("d", <<>>, 0, <<1, 0>>)                   \* empty text
ItemE == Item("e", <<"c", "d">>, 0, <<1>>)              \* vector of length 1
ItemF == Item("f", <<"c", "d">>, 0, <<3, 4>>)           \* other text, vector
\* "text": 5, a number where a string is expected
ItemN == [Item("n", <<"5">>, 0, <<>>) EXCEPT !.text.str = FALSE]

\* a record array; a source holds a run of consecutive records of it
Records ==
    <<ItemD, ItemA, ItemA, ItemB, ItemE, ItemC, ItemA, ItemC, ItemF, ItemC,
      ItemN>>

\* the runs of at most n consecutive records, the empty array included
Runs(n) ==
    { SubSeq(Records, w[1], w[1] + w[2] - 1) :
        w \in { w \in (1..Len(Records)) \X (0..n) :
                    w[1] + w[2] - 1 <= Len(Records) } }

Source(kind, name_gz, gzip, records, parts) ==
    [kind |-> kind, name_gz |-> name_gz, gzip |-> gzip, records |-> records,
     parts |-> parts]

NoSource == Source("failed", FALSE, FALSE, <<>>, <<>>)

\* one URL of a list
Part(name_gz, gzip, records) == Source("part", name_gz, gzip, records, <<>>)

\* local files of plain JSON
FileSources ==
    {NoSource}
    \cup {Source("file", FALSE, FALSE, r, <<>>) : r \in Runs(MaxRecords)}

\* files and URLs, compressed or not, named ".gz" or not
CompressedSources ==
    {Source(kind, name_gz, gzip, <<ItemA, ItemB>>, <<>>) :
        kind \in {"file", "url"}, name_gz \in BOOLEAN, gzip \in BOOLEAN}

\* lists of one or two URLs
Parts ==
    { Part(FALSE, FALSE, <<ItemA>>), Part(TRUE, TRUE, <<ItemB>>),
      Part(FALSE, TRUE, <<ItemC>>) }

UrlLists ==
    {Source("urls", FALSE, FALSE, <<>>, <<p>>) : p \in Parts}
    \cup {Source("urls", FALSE, FALSE, <<>>, <<p, q>>) : p, q \in Parts}

Sources == FileSources \cup CompressedSources \cup UrlLists

\* an entry two queries match with different scores: "ab cdd" and 300
\* more characters
ItemG == Item("g", <<"a", "b", " ", "c", "d", "d">>, 300, <<>>)

\* the corpora and the queries of the searches on threads
SearchesSources ==
    { Source("file", FALSE, FALSE, r, <<>>) :
        r \in {<<ItemG>>, <<ItemA, ItemG>>, <<ItemG, ItemF>>} }

SearchesTexts == { <<"a", "b">>, <<"c", "d", "d">> }

\* the keys of the cache
CacheKeys ==
    {"bible_embeddings", "claude_response_1", "claude_response_2",
     "claude_response_3"}

\* the query texts of search_verses
SearchTexts == { <<"a", "b">>, <<"z", "z">> }

\* those of the keyword matcher called alone: a query in capitals too
QueryTexts == SearchTexts \cup { <<"A", "B">> }

QueryEmbeddings == { <<>>, <<1, 0>>, <<0, 1>> }

TopKs == 1..MaxTopK

\* config.CATEGORIES
CATEGORIES ==
    <<"gwangye", "jinro", "sinang", "gamjeong", "yunri", "geongang",
      "gyeongje">>

\* a record at a book, chapter and verse
ItemAt(ref) ==
    [Item(None, <<"a", "b">>, 0, <<>>) EXCEPT
        !.book = ref[1], !.chapter = ref[2], !.verse = ref[3]]

\* a file of one record for each of the curated references, in another
\* order than the curated list, and a file of two of them beside a record
\* of another place
CuratedRecords ==
    [i \in 1..Len(popular_references) |->
        ItemAt(popular_references[Len(popular_references) + 1 - i])]

PopularSources ==
    { Source("file", FALSE, FALSE, CuratedRecords, <<>>),
      Source("file", FALSE, FALSE,
             <<ItemAt(popular_references[2]), ItemC,
               ItemAt(popular_references[1]),
               ItemAt(popular_references[1])>>, <<>>) }

\* the corpora of the counseling flow: those above, one without a curated
\* entry, none
CounselSources ==
    PopularSources
    \cup {Source("file", FALSE, FALSE, <<ItemA, ItemF>>, <<>>), NoSource}

\* the category argument: a category or None; the count argument
PopularCategories == Range(CATEGORIES) \cup {None}

PopularCounts == {0, 1, 5, Len(popular_references)}

Text(body, fill) == [body |-> body, fill |-> fill, str |-> TRUE]

\* what fails while a request is handled
Envs ==
    [ai : {"text", "none", "raise"}, fallback_fails : BOOLEAN,
     session_fails : BOOLEAN]

\* "gajok ttaemune neomu himdeuleoyo"
FamilyText ==
    Text(<<"ga", "jok", " ", "ttae", "mun", "e", " ", "neo", "mu", " ",
           "him", "deul", "eo", "yo">>, 0)

\* the texts classify is called with: the text above; "byeongwon
\* geokjeong", two categories the sort swaps; "siheom", three categories
\* of one score; "gajok" with 132 full stops, a score below 0.5; ""
ClassifyTexts ==
    { FamilyText,
      Text(<<"byeong", "won", " ", "geok", "jeong">>, 0),
      Text(<<"si", "heom">>, 0),
      Text(<<"ga", "jok">>, 132),
      Text(<<>>, 0) }

\* the messages of the users: two plain ones, one of a category, a
\* greeting, a request for help
Messages ==
    { Text(<<"a", "b">>, 0), Text(<<"z", "z">>, 0), FamilyText,
      Text(<<"h", "i">>, 0), Text(<<"h", "e", "l", "p">>, 0) }

\* the bodies POSTed to /webhook
RequestBodies ==
    { [kind |-> kind, user_message |-> Text(<<>>, 0), user_id_str |-> TRUE] :
        kind \in {"unparsable", "empty", "invalid"} }
    \cup { [kind |-> "valid", user_message |-> m, user_id_str |-> TRUE] :
             m \in Messages }
    \cup { [kind |-> "valid", user_message |-> Text(<<"a", "b">>, 0),
            user_id_str |-> FALSE] }

\* ------------------------------------------------------------------- state


Self ==
    [verses |-> verses, embeddings_matrix |-> embeddings_matrix,
     is_loaded |-> is_loaded, global_cache |-> global_cache]

NoStats == [loaded |-> FALSE, total_verses |-> 0, embedding_dimension |-> 0]

\* the record of a call: only the fields of the call made are meaningful
NoCall ==
    [op |-> "none", ok |-> FALSE, ret |-> <<>>, vec |-> <<>>,
     vec_scores |-> <<>>, kw_ran |-> FALSE, kw |-> <<>>,
     vec_failed |-> FALSE, kw_failed |-> FALSE, raised |-> FALSE,
     query_text |-> <<>>, query_embedding |-> <<>>, top_k |-> 0,
     stats |-> NoStats, text |-> Text(<<>>, 0), categories |-> <<>>,
     source |-> NoSource, cached |-> FALSE, decoded |-> <<>>,
     again |-> FALSE, category |-> None, count |-> 0, unfiltered |-> {},
     env |-> [ai |-> "text", fallback_fails |-> FALSE,
              session_fails |-> FALSE],
     response |-> NoResponse, steps |-> <<>>,
     popular |-> <<>>, popular_called |-> FALSE, generated_with |-> <<>>,
     status |-> 0,
     message |-> [role |-> None, content |-> 0],
     session_before |-> [conversation_history |-> <<>>,
                         interaction_count |-> 0],
     attempted |-> FALSE,
     manager_before |-> [connected |-> FALSE, _connection_attempts |-> 0,
                         failed_attempts |-> 0, stored |-> <<>>],
     key |-> None, was_cached |-> FALSE, size_before |-> 0,
     oldest |-> None, removed |-> {}, outcomes |-> <<>>, downloaded |-> FALSE, thread |-> None, own_scores |-> <<>>,
     ret_scores |-> <<>>,
     body |-> [kind |-> "none", user_message |-> Text(<<>>, 0),
               user_id_str |-> TRUE]]

Idle == [pc |-> "idle"]

\* the threads of app.run(threaded=True) that handle requests
Threads == {"t1", "t2"}

\* the state outside the BibleManager after the modules are imported
OthersInit ==
    /\ local_file = [exists |-> FALSE, whole |-> FALSE]
    /\ cache = <<>>
    /\ access_order = <<>>
    /\ session = [conversation_history |-> <<>>, interaction_count |-> 0]
    /\ manager = [connected |-> FALSE, _connection_attempts |-> 0,
                  failed_attempts |-> 0, stored |-> <<>>]
    /\ app_status = [total_requests |-> 0, successful_responses |-> 0,
                     error_responses |-> 0]
    /\ running = [t \in Threads |-> Idle]

Init ==
    /\ verses = <<>>
    /\ embeddings_matrix = NoMatrix
    /\ is_loaded = FALSE
    /\ global_cache = NoCache
    /\ last = NoCall
    /\ loader = Idle
    /\ classified = [text \in ClassifyTexts |->
                         [seen |-> FALSE, categories |-> <<>>]]
    /\ OthersInit

\* the cached tuple holds the very list self.verses names, so a score
\* written to a verse shows in the cached list too
WithScores(entry, vs) ==
    IF entry.present THEN [entry EXCEPT !.verses = vs] ELSE entry

\* ----------------------------------------------------------------- actions

\* a whole load_embeddings call; again: the call before was a successful
\* load of the same source
Load(source, memory_critical) ==
    \E r \in {load_embeddings(Self, source, memory_critical)} :
        /\ verses' = r.verses
        /\ embeddings_matrix' = r.embeddings_matrix
        /\ is_loaded' = r.is_loaded
        /\ global_cache' = r.global_cache
        /\ last' = [NoCall EXCEPT !.op = "load", !.ok = r.ret,
                       !.source = source, !.cached = r.cached,
                       !.decoded = r.decoded,
                       !.again = (last.op = "load" /\ last.ok
                                  /\ last.source = source)]
        /\ UNCHANGED <<loader, classified, others>>

\* a whole load_embeddings call with one remote URL configured.  again:
\* the call before was such a load that failed with every download
\* attempt failed
LoadFromUrl(outcomes, memory_critical) ==
    \E f \in {IF global_cache.present
               THEN [file |-> local_file, downloaded |-> FALSE,
                     source |-> NoSource]
               ELSE FetchUrl(local_file, outcomes, <<ItemA, ItemF>>)} :
        \E r \in {load_embeddings(Self, f.source, memory_critical)} :
            /\ verses' = r.verses
            /\ embeddings_matrix' = r.embeddings_matrix
            /\ is_loaded' = r.is_loaded
            /\ global_cache' = r.global_cache
            /\ local_file' = f.file
            /\ last' = [NoCall EXCEPT
                           !.op = "load_url", !.ok = r.ret,
                           !.cached = r.cached, !.outcomes = outcomes,
                           !.downloaded = f.downloaded,
                           !.again = (last.op = "load_url" /\ ~last.ok
                                      /\ ~last.cached /\ ~last.downloaded
                                      /\ \A i \in 1..Len(last.outcomes) :
                                             last.outcomes[i] # "ok")]
            /\ UNCHANGED <<loader, classified, cache, access_order, session,
                           manager, app_status, running>>

\* a whole add_message call on the session; the messages are numbered
\* and the roles alternate as in process_chatbot_request
AddMessage ==
    /\ session.interaction_count < MaxMessages
    /\ \E message \in {[role |-> IF session.interaction_count % 2 = 0
                                  THEN "user" ELSE "assistant",
                         content |-> session.interaction_count + 1]} :
         /\ session' = add_message(session, message)
         /\ last' = [NoCall EXCEPT !.op = "add_message",
                        !.message = message, !.session_before = session]
    /\ UNCHANGED <<verses, embeddings_matrix, is_loaded, global_cache,
                   loader, classified, local_file, cache, access_order,
                   manager, app_status, running>>

\* a whole get_user_session call: the session is the stored one when the
\* manager is connected, the query answers (db_ok) and a session is
\* stored, and a new UserSession when not; manager.stored is the
\* document of the user in the collection, <<>> when none
GetUserSession(reachable, db_ok) ==
    \E c \in {_connect_to_mongodb(manager, reachable)} :
        /\ manager' = c.m
        /\ session' = IF c.ret /\ db_ok /\ manager.stored # <<>>
                      THEN manager.stored[1]
                      ELSE [conversation_history |-> <<>>,
                            interaction_count |-> 0]
        /\ last' = [NoCall EXCEPT !.op = "get_user_session",
                       !.ok = c.ret, !.attempted = c.attempted,
                       !.manager_before = manager]
        /\ UNCHANGED <<verses, embeddings_matrix, is_loaded, global_cache,
                       loader, classified, local_file, cache, access_order,
                       app_status, running>>

\* a whole save_user_session (op = "save_user_session") or
\* log_interaction (op = "log_interaction") call
SaveOrLog(op, reachable, db_ok) ==
    \E c \in {_connect_to_mongodb(manager, reachable)} :
        /\ manager' = IF op = "save_user_session" /\ c.ret /\ db_ok
                      THEN [c.m EXCEPT !.stored = <<session>>]
                      ELSE c.m
        /\ last' = [NoCall EXCEPT !.op = op, !.ok = (c.ret /\ db_ok),
                       !.attempted = c.attempted,
                       !.manager_before = manager]
        /\ UNCHANGED <<verses, embeddings_matrix, is_loaded, global_cache,
                       loader, classified, local_file, cache, access_order,
                       session, app_status, running>>

\* CacheManager.get(key); list.remove drops the first occurrence
get(key) ==
    /\ IF key \in DOMAIN cache
       THEN access_order' =
                Append(SelectSeq(access_order, LAMBDA k : k # key), key)
       ELSE UNCHANGED access_order
    /\ last' = [NoCall EXCEPT !.op = "cache_get", !.key = key]
    /\ UNCHANGED <<verses, embeddings_matrix, is_loaded, global_cache,
                   loader, classified, local_file, cache, session, manager,
                   app_status, running>>

\* CacheManager.set(key, value): the loop of lines 230-232 pops the head
\* of access_order while max_size keys or more are cached, then the key is
\* stored and moved to the end.  max_size is 1 or more, so the loop ends.
set(key, value) ==
    LET n == Cardinality(DOMAIN cache)
        pops == IF n >= max_size THEN n - max_size + 1 ELSE 0
        popped == {access_order[i] : i \in 1..pops}
        kept == SubSeq(access_order, pops + 1, Len(access_order))
    IN  /\ cache' = [k \in ((DOMAIN cache) \ popped) \cup {key} |->
                        IF k = key THEN value ELSE cache[k]]
        /\ access_order' = Append(SelectSeq(kept, LAMBDA k : k # key), key)
        /\ last' = [NoCall EXCEPT
                       !.op = "cache_set", !.key = key,
                       !.was_cached = (key \in DOMAIN cache),
                       !.size_before = n,
                       !.oldest = IF access_order = <<>> THEN None
                                  ELSE access_order[1],
                       !.removed = popped \ {key}]
        /\ UNCHANGED <<verses, embeddings_matrix, is_loaded, global_cache,
                       loader, classified, local_file, session, manager,
                       app_status, running>>

\* CacheManager.clear()
clear ==
    /\ cache' = <<>>
    /\ access_order' = <<>>
    /\ last' = [NoCall EXCEPT !.op = "cache_clear"]
    /\ UNCHANGED <<verses, embeddings_matrix, is_loaded, global_cache,
                   loader, classified, local_file, session, manager,
                   app_status, running>>

\* the 'bible_embeddings' entry leaves global_cache: evicted by the entries
\* other callers set, or cleared
CacheEvict ==
    /\ global_cache.present
    /\ global_cache' = NoCache
    /\ last' = [NoCall EXCEPT !.op = "evict"]
    /\ UNCHANGED <<verses, embeddings_matrix, is_loaded, loader, classified, others>>

\* a whole search_verses call
Search(query_text, query_embedding, top_k) ==
    \E order \in SearchOrders(Self, query_embedding) :
        \E r \in {search_verses(Self, query_text, query_embedding, top_k, order)} :
            /\ verses' = r.verses
            /\ global_cache' = WithScores(global_cache, r.verses)
            /\ last' = [NoCall EXCEPT !.op = "search", !.ret = r.ret,
                           !.vec = r.vec, !.vec_scores = r.vec_scores,
                           !.kw_ran = r.kw_ran, !.kw = r.kw,
                           !.vec_failed = r.vec_failed,
                           !.kw_failed = r.kw_failed,
                           !.raised = r.raised,
                           !.query_text = query_text,
                           !.query_embedding = query_embedding,
                           !.top_k = top_k]
            /\ UNCHANGED <<embeddings_matrix, is_loaded, loader, classified, others>>

\* the vector matcher alone, called as search_verses calls it
EmbeddingSearch(query_embedding, top_k) ==
    /\ is_loaded
    /\ query_embedding # <<>>
    /\ embeddings_matrix # NoMatrix
    /\ \E order \in Orders(embeddings_matrix, query_embedding) :
        \E r \in {_embedding_search(verses, embeddings_matrix,
                                    query_embedding, top_k, order)} :
            /\ verses' = r.verses
            /\ global_cache' = WithScores(global_cache, r.verses)
            /\ last' = [NoCall EXCEPT !.op = "embedding_search",
                           !.ret = r.results,
                           !.query_embedding = query_embedding,
                           !.top_k = top_k]
            /\ UNCHANGED <<embeddings_matrix, is_loaded, loader, classified, others>>

\* the keyword matcher alone
KeywordSearch(query_text, top_k) ==
    \E r \in {_keyword_search(verses, query_text, top_k)} :
        /\ verses' = r.verses
        /\ global_cache' = WithScores(global_cache, r.verses)
        /\ last' = [NoCall EXCEPT !.op = "keyword_search",
                       !.ret = r.results,
                       !.kw_failed = r.failed,
                       !.query_text = query_text,
                       !.top_k = top_k]
        /\ UNCHANGED <<embeddings_matrix, is_loaded, loader, classified, others>>

\* a whole get_stats call
GetStats ==
    /\ last' = [NoCall EXCEPT !.op = "get_stats", !.stats = get_stats(Self)]
    /\ UNCHANGED <<verses, embeddings_matrix, is_loaded, global_cache, loader,
                   classified, others>>

\* the references of the verses of a result list
RefsOf(vs, results) ==
    {<<vs[results[i]].book, vs[results[i]].chapter, vs[results[i]].verse>> :
        i \in 1..Len(results)}

\* a whole handle_counseling_request call
Counsel(user_message, env) ==
    \E r \in {handle_counseling_request(Self, user_message, env)} :
        /\ verses' = r.verses
        /\ global_cache' = WithScores(global_cache, r.verses)
        /\ last' = [NoCall EXCEPT !.op = "counsel", !.text = user_message,
                       !.raised = r.raised, !.env = env,
                       !.response = r.response, !.steps = r.steps,
                       !.ret = r.searched, !.popular = r.popular,
                       !.popular_called = r.popular_called,
                       !.generated_with = r.generated_with]
        /\ UNCHANGED <<embeddings_matrix, is_loaded, loader, classified,
                       others>>

\* a whole POST /webhook request.  The source is read when no verse is
\* held, and env when a counseling message is handled: one value stands
\* for all where they are not read.
Webhook(body, env, source, memory_critical) ==
    /\ app_status.total_requests < MaxRequests
    /\ Len(verses) > 0 => (source = NoSource /\ ~memory_critical)
    /\ (body.kind # "valid" \/ ~body.user_id_str
        \/ MessageType(body.user_message) # "counseling")
           => env = [ai |-> "text", fallback_fails |-> FALSE,
                     session_fails |-> FALSE]
    /\ \E r \in {webhook(Self, body, env, source, memory_critical)} :
        /\ verses' = r.self.verses
        /\ embeddings_matrix' = r.self.embeddings_matrix
        /\ is_loaded' = r.self.is_loaded
        /\ global_cache' = r.self.global_cache
        /\ app_status' =
               [app_status EXCEPT !.total_requests = @ + 1,
                                  ![r.counted] = @ + 1]
        /\ last' = [NoCall EXCEPT !.op = "webhook", !.body = body,
                       !.env = env, !.source = source,
                       !.status = r.status, !.response = r.response]
    /\ UNCHANGED <<loader, classified, local_file, cache, access_order,
                   session, manager, running>>

\* a whole get_popular_verses call.  unfiltered: the categories for which
\* a call, among the calls since the last call of another operation,
\* returned every curated reference
PopularVerses(category, count) ==
    \E r \in {get_popular_verses(verses, category, count)} :
        /\ verses' = r.verses
        /\ global_cache' = WithScores(global_cache, r.verses)
        /\ last' = [NoCall EXCEPT !.op = "popular", !.ret = r.results,
                       !.category = category, !.count = count,
                       !.unfiltered =
                           (IF last.op = "popular" THEN last.unfiltered
                            ELSE {})
                           \cup (IF category # None
                                    /\ RefsOf(r.verses, r.results)
                                           = Range(popular_references)
                                 THEN {category} ELSE {})]
        /\ UNCHANGED <<embeddings_matrix, is_loaded, loader, classified, others>>

\* a whole classify call
Classify(text) ==
    \E r \in {classify(text)} :
        /\ last' = [NoCall EXCEPT !.op = "classify", !.text = text,
                       !.categories = r]
        /\ classified' =
               IF classified[text].seen THEN classified
               ELSE [classified EXCEPT
                        ![text] = [seen |-> TRUE, categories |-> r]]
        /\ UNCHANGED <<verses, embeddings_matrix, is_loaded, global_cache,
                       loader, others>>

Next ==
    \/ \E source \in FileSources, memory_critical \in BOOLEAN :
           Load(source, memory_critical)
    \/ CacheEvict
    \/ \E query_text \in SearchTexts, query_embedding \in QueryEmbeddings,
          top_k \in TopKs : Search(query_text, query_embedding, top_k)
    \/ \E query_embedding \in QueryEmbeddings, top_k \in TopKs :
           EmbeddingSearch(query_embedding, top_k)
    \/ \E query_text \in QueryTexts, top_k \in TopKs :
           KeywordSearch(query_text, top_k)
    \/ GetStats

Spec == Init /\ [][Next]_vars

\* ----------------------------------------------- loads from every source

\* load_embeddings called with files and URLs, compressed or not, and with
\* lists of URLs
SourcesNext ==
    \/ \E source \in Sources, memory_critical \in BOOLEAN :
           Load(source, memory_critical)
    \/ CacheEvict
    \/ GetStats

SourcesSpec == Init /\ [][SourcesNext]_vars

\* ------------------------------------------------------- popular entries

\* get_popular_verses on corpora that hold curated references
PopularNext ==
    \/ \E source \in PopularSources, memory_critical \in BOOLEAN :
           Load(source, memory_critical)
    \/ \E category \in PopularCategories, count \in PopularCounts :
           PopularVerses(category, count)

PopularSpec == Init /\ [][PopularNext]_vars

\* ------------------------------------------------------ the counseling flow

\* handle_counseling_request on corpora with and without curated entries
CounselNext ==
    \/ \E source \in CounselSources, memory_critical \in BOOLEAN :
           Load(source, memory_critical)
    \/ \E user_message \in Messages, env \in Envs :
           Counsel(user_message, env)

CounselSpec == Init /\ [][CounselNext]_vars

\* ----------------------------------------- searches on their own threads

\* search_verses(query_text, top_k) as handle_counseling_request calls it,
\* without a query embedding, on the thread t: the call is at line 424
\* of _keyword_search.  own holds, beside verse_scores, the score this
\* call computed for each entry.
SearchBegin(t, query_text, top_k) ==
    /\ is_loaded
    /\ running[t].pc = "idle"
    /\ extract_keywords(query_text) # <<>>
    /\ running' = [running EXCEPT ![t] =
           [pc |-> "scan", query_keywords |-> extract_keywords(query_text),
            top_k |-> top_k, i |-> 1, verse_scores |-> <<>>, own |-> <<>>]]
    /\ UNCHANGED <<verses, embeddings_matrix, is_loaded, global_cache, last,
                   loader, classified, local_file, cache, access_order,
                   session, manager, app_status>>

\* one pass of the loop of lines 428-441 on the thread t
SearchScan(t) ==
    /\ running[t].pc = "scan"
    /\ running[t].i <= Len(verses)
    /\ \E score \in {KeywordScore(running[t].query_keywords,
                                   verses[running[t].i].text)} :
         \E acc \in {KeywordStep([verses |-> verses,
                                  verse_scores |-> running[t].verse_scores,
                                  raised |-> FALSE],
                                 running[t].i, score)} :
            /\ verses' = acc.verses
            /\ global_cache' = WithScores(global_cache, acc.verses)
            /\ running' =
                   [running EXCEPT
                       ![t].i = @ + 1,
                       ![t].verse_scores = acc.verse_scores,
                       ![t].own = IF Gt(score, Zero)
                                  THEN Append(@, FMin(score, One))
                                  ELSE @]
    /\ UNCHANGED <<embeddings_matrix, is_loaded, last, loader, classified,
                   local_file, cache, access_order, session, manager,
                   app_status>>

\* lines 444-447 and 373-383 on the thread t: sort, truncate, merge,
\* filter and return
SearchFinish(t) ==
    /\ running[t].pc = "scan"
    /\ running[t].i > Len(verses)
    /\ \E ret \in {Take(AboveThreshold(
                         Merge(<<>>,
                               Take(SortDesc(running[t].verse_scores, verses),
                                    running[t].top_k),
                               {}, running[t].top_k, verses),
                         verses),
                     running[t].top_k)} :
         last' = [NoCall EXCEPT
                     !.op = "search_on_thread", !.thread = t, !.ret = ret,
                     !.top_k = running[t].top_k,
                     !.ret_scores =
                         [j \in 1..Len(ret) |-> verses[ret[j]].similarity_score],
                     !.own_scores =
                         [j \in 1..Len(ret) |->
                             running[t].own[
                                 CHOOSE n \in 1..Len(running[t].verse_scores) :
                                     running[t].verse_scores[n] = ret[j]]]]
    /\ running' = [running EXCEPT ![t] = Idle]
    /\ UNCHANGED <<verses, embeddings_matrix, is_loaded, global_cache,
                   loader, classified, local_file, cache, access_order,
                   session, manager, app_status>>

\* the corpus is loaded while no search runs; the queries match the same
\* entry with different scores
SearchesNext ==
    \/ /\ \A t \in Threads : running[t].pc = "idle"
       /\ \E source \in SearchesSources : Load(source, FALSE)
    \/ \E t \in Threads, query_text \in SearchesTexts, top_k \in TopKs :
           SearchBegin(t, query_text, top_k)
    \/ \E t \in Threads : SearchScan(t)
    \/ \E t \in Threads : SearchFinish(t)

SearchesSpec == Init /\ [][SearchesNext]_vars

\* ------------------------------------------------------ loads from a URL

\* load_embeddings with one remote URL configured, the three download
\* attempts of a call ending in every way
DownloadNext ==
    \/ \E outcomes \in [1..3 -> {"refused", "broken", "ok"}],
          memory_critical \in BOOLEAN :
           LoadFromUrl(outcomes, memory_critical)
    \/ CacheEvict
    \/ \E query_text \in SearchTexts, top_k \in TopKs :
           KeywordSearch(query_text, top_k)

DownloadSpec == Init /\ [][DownloadNext]_vars

\* ------------------------------------------------------- the CacheManager

\* get, set and clear on a CacheManager; the keys are those of
\* load_embeddings and of generate_response
CacheNext ==
    \/ \E key \in CacheKeys : get(key)
    \/ \E key \in CacheKeys, value \in {"v", "w"} : set(key, value)
    \/ clear

CacheSpec == Init /\ [][CacheNext]_vars

\* ------------------------------------------- sessions and their store

ConversationNext ==
    \/ AddMessage
    \/ \E reachable \in BOOLEAN, db_ok \in BOOLEAN :
           GetUserSession(reachable, db_ok)
    \/ \E op \in {"save_user_session", "log_interaction"},
          reachable \in BOOLEAN, db_ok \in BOOLEAN :
           SaveOrLog(op, reachable, db_ok)

ConversationSpec == Init /\ [][ConversationNext]_vars

\* ------------------------------------------------------------ the webhook

WebhookNext ==
    \E body \in RequestBodies, env \in Envs, source \in CounselSources,
       memory_critical \in BOOLEAN :
        Webhook(body, env, source, memory_critical)

WebhookSpec == Init /\ [][WebhookNext]_vars

\* --------------------------------- POST /webhook on the threads of app.run

\* app.run(threaded=True) handles every request on a thread of its own, and
\* app_status[key] += 1 is a read of the entry, an addition and a write of
\* the entry: a thread can be switched between the read and the write.  A
\* thread handles one request; pc "total_read" is a thread between the read
\* and the write of line 221, "counted" one in the try block, "outcome_read"
\* one between the read and the write of line 234, 242, 262 or 269.

\* line 221, the read of total_requests
WebhookBegin(t, body) ==
    /\ running[t].pc = "idle"
    /\ running' = [running EXCEPT
                      ![t] = [pc |-> "total_read", body |-> body,
                              read |-> app_status.total_requests]]
    /\ last' = [NoCall EXCEPT !.op = "webhook_begin", !.thread = t,
                   !.body = body]
    /\ UNCHANGED <<verses, embeddings_matrix, is_loaded, global_cache,
                   loader, classified, local_file, cache, access_order,
                   session, manager, app_status>>

\* line 221, the write of total_requests
WebhookCount(t) ==
    /\ running[t].pc = "total_read"
    /\ app_status' = [app_status EXCEPT
                         !.total_requests = running[t].read + 1]
    /\ running' = [running EXCEPT ![t] = [@ EXCEPT !.pc = "counted"]]
    /\ last' = [NoCall EXCEPT !.op = "webhook_count", !.thread = t]
    /\ UNCHANGED <<verses, embeddings_matrix, is_loaded, global_cache,
                   loader, classified, local_file, cache, access_order,
                   session, manager>>

\* lines 223-262 or 264-269 up to the read of the counter of the outcome
WebhookHandle(t, env, source, memory_critical) ==
    /\ running[t].pc = "counted"
    /\ Len(verses) > 0 => (source = NoSource /\ ~memory_critical)
    /\ (running[t].body.kind # "valid" \/ ~running[t].body.user_id_str
        \/ MessageType(running[t].body.user_message) # "counseling")
           => env = [ai |-> "text", fallback_fails |-> FALSE,
                     session_fails |-> FALSE]
    /\ \E r \in {webhook(Self, running[t].body, env, source,
                         memory_critical)} :
        /\ verses' = r.self.verses
        /\ embeddings_matrix' = r.self.embeddings_matrix
        /\ is_loaded' = r.self.is_loaded
        /\ global_cache' = r.self.global_cache
        /\ running' = [running EXCEPT
                          ![t] = [pc |-> "outcome_read", key |-> r.counted,
                                  read |-> app_status[r.counted],
                                  status |-> r.status]]
        /\ last' = [NoCall EXCEPT !.op = "webhook_handle", !.thread = t,
                       !.body = running[t].body, !.env = env,
                       !.source = source, !.status = r.status,
                       !.response = r.response]
    /\ UNCHANGED <<loader, classified, local_file, cache, access_order,
                   session, manager, app_status>>

\* the write of the counter of the outcome, and the return
WebhookFinish(t) ==
    /\ running[t].pc = "outcome_read"
    /\ app_status' = [app_status EXCEPT
                         ![running[t].key] = running[t].read + 1]
    /\ running' = [running EXCEPT
                      ![t] = [pc |-> "done", status |-> @.status]]
    /\ last' = [NoCall EXCEPT !.op = "webhook_finish", !.thread = t,
                   !.status = running[t].status]
    /\ UNCHANGED <<verses, embeddings_matrix, is_loaded, global_cache,
                   loader, classified, local_file, cache, access_order,
                   session, manager>>

ThreadedWebhookNext ==
    \/ \E t \in Threads, body \in RequestBodies : WebhookBegin(t, body)
    \/ \E t \in Threads : WebhookCount(t)
    \/ \E t \in Threads, env \in Envs, source \in CounselSources,
          memory_critical \in BOOLEAN :
           WebhookHandle(t, env, source, memory_critical)
    \/ \E t \in Threads : WebhookFinish(t)

ThreadedWebhookSpec == Init /\ [][ThreadedWebhookNext]_vars

\* ------------------------------------------ the classifier beside the rest

\* classify calls between loads and searches of the manager that owns the
\* classifier
ClassifierNext ==
    \/ \E text \in ClassifyTexts : Classify(text)
    \/ \E source \in {x \in FileSources : Len(x.records) <= 1},
          memory_critical \in BOOLEAN : Load(source, memory_critical)
    \/ \E query_text \in SearchTexts, query_embedding \in QueryEmbeddings :
           Search(query_text, query_embedding, 1)

ClassifierSpec == Init /\ [][ClassifierNext]_vars

\* ------------------------------------------- a load on its own thread

\* The Flask server handles each request on its own thread, so a
\* load_embeddings call runs statement by statement while other requests
\* read the manager.  loader holds the call's position and locals: rest
\* (the records not yet looped over) and embeddings_list; old and new are
\* the corpus when the call began and the corpus the call builds.

Entries(vs) == [i \in 1..Len(vs) |-> [vs[i] EXCEPT !.similarity_score = Zero]]

Corpus(vs, matrix) == [entries |-> Entries(vs), matrix |-> matrix]

Loading == loader.pc # "idle"

\* lines 159-205 and 286: the call up to the start of the loop
LoadBegin(source, memory_critical) ==
    /\ ~Loading
    /\ UNCHANGED <<classified, others>>
    /\ \E r \in {load_embeddings(Self, source, memory_critical)},
          read \in {ReadSource(source)} :
       \E mine \in {[old |-> Corpus(verses, embeddings_matrix),
                     new |-> Corpus(r.verses, r.embeddings_matrix),
                     rest |-> <<>>, embeddings_list |-> <<>>,
                     memory_critical |-> memory_critical]} :
        IF global_cache.present
        THEN \* line 166, first target of the tuple assignment
             /\ verses' = global_cache.verses
             /\ loader' = mine @@ [pc |-> "cached"]
             /\ UNCHANGED <<embeddings_matrix, is_loaded, global_cache, last>>
        ELSE IF read.data = <<>>
        THEN /\ last' = [NoCall EXCEPT !.op = "load", !.ok = FALSE]
             /\ UNCHANGED <<verses, embeddings_matrix, is_loaded,
                            global_cache, loader>>
        ELSE \* line 286
             /\ verses' = <<>>
             /\ loader' = [mine EXCEPT !.rest = read.data]
                              @@ [pc |-> "parsing"]
             /\ UNCHANGED <<embeddings_matrix, is_loaded, global_cache, last>>

\* lines 166-168: the second target of the tuple assignment, and the flag
LoadFromCache ==
    /\ loader.pc = "cached"
    /\ embeddings_matrix' = global_cache.embeddings_matrix
    /\ is_loaded' = TRUE
    /\ last' = [NoCall EXCEPT !.op = "load", !.ok = TRUE]
    /\ loader' = Idle
    /\ UNCHANGED <<verses, global_cache, classified, others>>

\* lines 289-310: one pass of the loop
LoadItem ==
    /\ loader.pc = "parsing"
    /\ loader.rest # <<>>
    /\ \E st \in {ProcessItem([verses |-> verses,
                                embeddings_list |-> loader.embeddings_list],
                               Head(loader.rest))} :
        /\ verses' = st.verses
        /\ loader' = [loader EXCEPT !.rest = Tail(loader.rest),
                                    !.embeddings_list = st.embeddings_list]
    /\ UNCHANGED <<embeddings_matrix, is_loaded, global_cache, last,
                   classified, others>>

\* lines 312-337: after the loop
LoadFinish ==
    /\ loader.pc = "parsing"
    /\ loader.rest = <<>>
    /\ \E r \in {FinishProcess(Self,
                                [verses |-> verses,
                                 embeddings_list |-> loader.embeddings_list],
                                loader.memory_critical)} :
        /\ embeddings_matrix' = r.embeddings_matrix
        /\ global_cache' = r.global_cache
        /\ is_loaded' = r.is_loaded
        /\ last' = [NoCall EXCEPT !.op = "load", !.ok = r.ret]
    /\ loader' = Idle
    /\ UNCHANGED <<verses, classified, others>>

ThreadedNext ==
    \/ \E source \in FileSources, memory_critical \in BOOLEAN :
           LoadBegin(source, memory_critical)
    \/ LoadFromCache
    \/ LoadItem
    \/ LoadFinish
    \/ CacheEvict
    \/ \E query_text \in SearchTexts, query_embedding \in QueryEmbeddings :
           Search(query_text, query_embedding, MaxTopK)
    \/ GetStats

ThreadedSpec == Init /\ [][ThreadedNext]_vars

\* ------------------------------------------- requests on their own threads

\* main.py: every webhook request calls ensure_bible_loaded on its request
\* thread, which calls load_embeddings when it finds the entry list empty.
\* Under RequestsSpec loader holds one record per request thread, of the
\* shape it has under ThreadedSpec; pc "called" is a thread between the
\* test of line 59 and the first statement of load_embeddings.

RequestsInit ==
    /\ verses = <<>>
    /\ embeddings_matrix = NoMatrix
    /\ is_loaded = FALSE
    /\ global_cache = NoCache
    /\ last = NoCall
    /\ loader = [t \in Threads |-> Idle]
    /\ classified = [text \in ClassifyTexts |->
                         [seen |-> FALSE, categories |-> <<>>]]
    /\ OthersInit

\* the thread t is inside load_embeddings, past its first assignment
InLoad(t) == loader[t].pc \in {"cached", "parsing"}

\* main.py line 59: the test of ensure_bible_loaded
EnsureCheck(t) ==
    /\ loader[t].pc = "idle"
    /\ IF Len(verses) = 0
       THEN /\ loader' = [loader EXCEPT ![t] = [pc |-> "called"]]
            /\ UNCHANGED last
       ELSE /\ last' = [NoCall EXCEPT !.op = "ensure", !.ok = TRUE]
            /\ UNCHANGED loader
    /\ UNCHANGED <<verses, embeddings_matrix, is_loaded, global_cache,
                   classified, others>>

\* load_embeddings lines 159-205 and 286 on the thread t
EnsureLoadBegin(t, source, memory_critical) ==
    /\ loader[t].pc = "called"
    /\ UNCHANGED <<classified, others>>
    /\ \E mine \in {[rest |-> <<>>, embeddings_list |-> <<>>,
                      memory_critical |-> memory_critical]},
          read \in {ReadSource(source)} :
        IF global_cache.present
        THEN /\ verses' = global_cache.verses
             /\ loader' = [loader EXCEPT ![t] = mine @@ [pc |-> "cached"]]
             /\ UNCHANGED <<embeddings_matrix, is_loaded, global_cache, last>>
        ELSE IF read.data = <<>>
        THEN /\ last' = [NoCall EXCEPT !.op = "load", !.ok = FALSE]
             /\ loader' = [loader EXCEPT ![t] = Idle]
             /\ UNCHANGED <<verses, embeddings_matrix, is_loaded,
                            global_cache>>
        ELSE /\ verses' = <<>>
             /\ loader' = [loader EXCEPT
                    ![t] = [mine EXCEPT !.rest = read.data]
                               @@ [pc |-> "parsing"]]
             /\ UNCHANGED <<embeddings_matrix, is_loaded, global_cache, last>>

\* lines 166-168 on the thread t
EnsureLoadFromCache(t) ==
    /\ loader[t].pc = "cached"
    /\ embeddings_matrix' = global_cache.embeddings_matrix
    /\ is_loaded' = TRUE
    /\ last' = [NoCall EXCEPT !.op = "load", !.ok = TRUE]
    /\ loader' = [loader EXCEPT ![t] = Idle]
    /\ UNCHANGED <<verses, global_cache, classified, others>>

\* lines 289-310 on the thread t: one pass of the loop; the append goes to
\* the list self.verses names now
EnsureLoadItem(t) ==
    /\ loader[t].pc = "parsing"
    /\ loader[t].rest # <<>>
    /\ \E st \in {ProcessItem([verses |-> verses,
                                embeddings_list |-> loader[t].embeddings_list],
                               Head(loader[t].rest))} :
        /\ verses' = st.verses
        /\ loader' = [loader EXCEPT
               ![t].rest = Tail(loader[t].rest),
               ![t].embeddings_list = st.embeddings_list]
    /\ UNCHANGED <<embeddings_matrix, is_loaded, global_cache, last,
                   classified, others>>

\* lines 312-337 on the thread t
EnsureLoadFinish(t) ==
    /\ loader[t].pc = "parsing"
    /\ loader[t].rest = <<>>
    /\ \E r \in {FinishProcess(Self,
                                [verses |-> verses,
                                 embeddings_list |-> loader[t].embeddings_list],
                                loader[t].memory_critical)} :
        /\ embeddings_matrix' = r.embeddings_matrix
        /\ global_cache' = r.global_cache
        /\ is_loaded' = r.is_loaded
        /\ last' = [NoCall EXCEPT !.op = "load", !.ok = r.ret]
    /\ loader' = [loader EXCEPT ![t] = Idle]
    /\ UNCHANGED <<verses, classified, others>>

RequestsNext ==
    \E t \in Threads :
        \/ EnsureCheck(t)
        \/ \E source \in FileSources, memory_critical \in BOOLEAN :
               EnsureLoadBegin(t, source, memory_critical)
        \/ EnsureLoadFromCache(t)
        \/ EnsureLoadItem(t)
        \/ EnsureLoadFinish(t)

RequestsSpec == RequestsInit /\ [][RequestsNext]_vars

\* ------------------------------------------------------------------ claims

\* the similarity_score of the verse object v, as the state holds it
ScoreOf(v) == verses[v].similarity_score

IdsOf(results) == {verses[results[i]].id : i \in 1..Len(results)}

Searched == last.op = "search"
VectorSearched == last.op = "embedding_search"

\* C1: the list search_verses returns holds no two entries with the same
\* id, for every corpus load accepts.
C1_NoDuplicateIds ==
    Searched =>
        \A i, j \in 1..Len(last.ret) :
            i # j => verses[last.ret[i]].id # verses[last.ret[j]].id

\* C2: a search or get_stats call that reads the corpus while a load runs
\* on another thread sees the whole corpus from before the load or the
\* whole corpus the load builds: never an empty or partly filled entry list,
\* never an entry list with the matrix of the other corpus.
C2_ReadersSeeWholeCorpus ==
    (last.op \in {"search", "get_stats"} /\ Loading /\ is_loaded) =>
        Corpus(verses, embeddings_matrix) \in {loader.old, loader.new}

\* C3: a load_embeddings call that returns False leaves the entry list,
\* the embedding matrix and is_loaded exactly as they were before the call.
C3_FailedLoadKeepsCorpus ==
    [][ (last'.op = "load" /\ ~last'.ok) =>
            /\ verses' = verses
            /\ embeddings_matrix' = embeddings_matrix
            /\ is_loaded' = is_loaded ]_vars

\* the lengths of the embeddings the entries carry
EmbeddingLengths ==
    {Len(verses[i].embedding) : i \in {j \in 1..Len(verses) :
                                          verses[j].embedding # <<>>}}

\* C4: after a successful load every entry that carries an embedding has
\* the embedding length get_stats reports, and a load of records whose
\* embeddings differ in length returns False without admitting a
\* mismatched entry into the entry list.
C4_OneDimensionality ==
    last.op = "load" =>
        /\ last.ok => \A n \in EmbeddingLengths :
                          n = get_stats(Self).embedding_dimension
        /\ ~last.ok => Cardinality(EmbeddingLengths) <= 1

\* the embeddings of the entries that have one, in entry order
RowsOf(vs) ==
    LET with == SelectSeq(vs, LAMBDA v : v.embedding # <<>>)
    IN  [i \in 1..Len(with) |-> with[i].embedding]

\* C5: after every successful load the embedding matrix has exactly one
\* row per loaded entry that has an embedding, in entry order, and there
\* is no matrix when no loaded entry has an embedding.
C5_MatrixOfNewEntries ==
    (last.op = "load" /\ last.ok) => embeddings_matrix = RowsOf(verses)

\* C6: every entry the vector matcher returns has an embedding, and its
\* score is the cosine similarity of the query vector and that entry's own
\* embedding.
C6_ScoreOfOwnEmbedding ==
    VectorSearched =>
        \A i \in 1..Len(last.ret) :
            LET v == verses[last.ret[i]]
            IN  /\ v.embedding # <<>>
                /\ Len(v.embedding) = Len(last.query_embedding)
                /\ v.similarity_score = Cosine(last.query_embedding, v.embedding)

\* is the sequence of scores non-increasing
NonIncreasing(scores) ==
    \A i, j \in 1..Len(scores) : i < j => Geq(scores[i], scores[j])

AllAtLeastThreshold(scores) ==
    \A i \in 1..Len(scores) : Geq(scores[i], SIMILARITY_THRESHOLD)

ScoresOf(results) == [i \in 1..Len(results) |-> ScoreOf(results[i])]

\* C7: the vector matcher returns at most top_k entries, each with
\* similarity_score >= the threshold, in non-increasing score order; both
\* when called alone and as the vector path of search_verses.
C7_VectorMatcherContract ==
    /\ VectorSearched =>
           /\ Len(last.ret) <= last.top_k
           /\ AllAtLeastThreshold(ScoresOf(last.ret))
           /\ NonIncreasing(ScoresOf(last.ret))
    /\ Searched =>
           /\ Len(last.vec) <= last.top_k
           /\ AllAtLeastThreshold(last.vec_scores)
           /\ NonIncreasing(last.vec_scores)

\* C7 witness: the vector matcher returned two entries of different
\* scores.
C7_Witness ==
    /\ VectorSearched
    /\ Len(last.ret) = 2
    /\ Gt(ScoreOf(last.ret[1]), ScoreOf(last.ret[2]))

\* C8: entries of equal cosine score are returned in corpus order, and an
\* entry is never returned while an equal-scored entry earlier in the
\* corpus is left out.
C8_TiesInCorpusOrder ==
    VectorSearched =>
        LET similarities == cosine_similarity(last.query_embedding,
                                              embeddings_matrix)
        IN  /\ \A i, j \in 1..Len(last.ret) :
                   (i < j /\ similarities[last.ret[i]] = similarities[last.ret[j]])
                       => last.ret[i] < last.ret[j]
            /\ \A i \in 1..Len(last.ret) :
                   \A m \in 1..(last.ret[i] - 1) :
                       similarities[m] = similarities[last.ret[i]]
                           => m \in Range(last.ret)

\* C9: search_verses returns at most top_k entries, each with
\* similarity_score >= the threshold when the list is returned, whichever
\* matcher it came from.
C9_SearchBoundAndThreshold ==
    Searched =>
        /\ Len(last.ret) <= last.top_k
        /\ AllAtLeastThreshold(ScoresOf(last.ret))

\* C9 witness: a search that ran both matchers returned a keyword result
\* while the final filter dropped another whose score is below the
\* threshold.
C9_Witness ==
    /\ Searched
    /\ last.vec # <<>>
    /\ \E i \in 1..Len(last.kw) :
           /\ ~Geq(ScoreOf(last.kw[i]), SIMILARITY_THRESHOLD)
           /\ last.kw[i] \notin Range(last.ret)
    /\ \E i \in 1..Len(last.ret) : last.ret[i] \notin Range(last.vec)

C11_NonIncreasingResults ==
    Searched => NonIncreasing(ScoresOf(last.ret))

\* the list search_verses returns when only the matcher given ran without
\* an exception: its results at or above the threshold, cut at top_k
Surviving(results) ==
    Take(SelectSeq(results,
                   LAMBDA v : Geq(ScoreOf(v), SIMILARITY_THRESHOLD)),
         last.top_k)

C12_WitnessVector ==
    /\ Searched
    /\ last.vec_failed
    /\ last.ret # <<>>
    /\ last.ret = last.kw

KeywordSearched == last.op = "keyword_search"

\* C13 as stated: every entry the keyword matcher returns has in its text
\* at least one of the keywords extracted from the query, and a score
\* greater than 0 and at most 1.0.
C13_ReturnedContainKeyword ==
    KeywordSearched =>
        \A i \in 1..Len(last.ret) :
            /\ \E w \in Range(extract_keywords(last.query_text)) :
                   Contains(verses[last.ret[i]].text.body, w)
            /\ Gt(ScoreOf(last.ret[i]), Zero)
            /\ Geq(One, ScoreOf(last.ret[i]))

\* C13 amended: every entry the keyword matcher returns has in its text,
\* letter case ignored, at least one of the keywords extracted from the
\* query, and a score greater than 0 and at most 1.0.
C13_ReturnedContainKeywordAnyCase ==
    KeywordSearched =>
        \A i \in 1..Len(last.ret) :
            /\ \E w \in Range(extract_keywords(last.query_text)) :
                   Contains(Lower(verses[last.ret[i]].text.body), Lower(w))
            /\ Gt(ScoreOf(last.ret[i]), Zero)
            /\ Geq(One, ScoreOf(last.ret[i]))

\* C13 witness: the keyword matcher returned an entry that has the
\* query's keyword in another letter case only, beside a corpus entry
\* that has none and is left out.
C13_Witness ==
    /\ KeywordSearched
    /\ last.ret # <<>>
    /\ \A w \in Range(extract_keywords(last.query_text)) :
           ~Contains(verses[last.ret[1]].text.body, w)
    /\ \E v \in 1..Len(verses) : v \notin Range(last.ret)

Classified == last.op = "classify"

CategoriesOf(categories) ==
    {categories[i].category : i \in 1..Len(categories)}

\* C15: classify("gajok ttaemune neomu himdeuleoyo") returns a list that
\* holds both "gwangye" and "gamjeong", each with a score above 0.5, in
\* descending score order.
C15_FamilyTextCategories ==
    (Classified /\ last.text = FamilyText) =>
        /\ {"gwangye", "gamjeong"} \subseteq CategoriesOf(last.categories)
        /\ \A i \in 1..Len(last.categories) :
               Gt(last.categories[i].score, MinCategoryScore)
        /\ \A i, j \in 1..Len(last.categories) :
               i < j => Geq(last.categories[i].score, last.categories[j].score)

\* C16: two load operations never overlap: of the requests that find the
\* corpus empty at most one is inside load_embeddings at any moment.
C16_OneLoadAtATime ==
    \A t, u \in Threads : (InLoad(t) /\ InLoad(u)) => t = u

Loaded == last.op = "load"

\* C17: a load_embeddings call that follows a successful load of the same
\* source succeeds too, with the same entry count and the same embedding
\* dimensionality, served from global_cache or parsed again.
C17_LoadTwiceSame ==
    [][ (Loaded /\ last.ok /\ last'.op = "load"
         /\ last'.source = last.source) =>
            /\ last'.ok
            /\ Len(verses') = Len(verses)
            /\ get_stats(Self)'.embedding_dimension
                   = get_stats(Self).embedding_dimension ]_vars

\* C17 witness: the second of two loads of one source parsed the source
\* again and built a matrix.
C17_Witness ==
    /\ Loaded
    /\ last.again
    /\ last.ok
    /\ ~last.cached
    /\ Len(verses) = 2
    /\ embeddings_matrix # NoMatrix

\* C17 second witness: the second load was served from global_cache.
C17_WitnessCached ==
    /\ Loaded
    /\ last.again
    /\ last.cached

\* the records of all the parts of a list of URLs, in URL order
RECURSIVE PartsRecords(_)
PartsRecords(parts) ==
    IF parts = <<>> THEN <<>>
    ELSE Head(parts).records \o PartsRecords(Tail(parts))

\* the entries made of the records with a text, in order
RECURSIVE ValidEntries(_)
ValidEntries(records) ==
    IF records = <<>> THEN <<>>
    ELSE (IF TextLen(Head(records).text) = 0 THEN <<>>
          ELSE <<[id |-> Head(records).id, text |-> Head(records).text]>>)
         \o ValidEntries(Tail(records))

\* C18: a load from a comma-separated list of reachable URLs that hold
\* valid records succeeds, and the corpus is the valid entries of all the
\* parts in URL order.
C18_UrlListLoadsConcatenation ==
    (Loaded /\ last.source.kind = "urls" /\ ~last.cached
     /\ ValidEntries(PartsRecords(last.source.parts)) # <<>>) =>
        /\ last.ok
        /\ Len(verses) = Len(ValidEntries(PartsRecords(last.source.parts)))
        /\ \A i \in 1..Len(verses) :
               verses[i].text
                   = ValidEntries(PartsRecords(last.source.parts))[i].text

\* the files of a source: the file or URL itself, or the parts of a list
Contents(source) ==
    IF source.kind = "urls" THEN source.parts ELSE <<source>>

\* C19: on every load path (local file, one URL, list of URLs) a content
\* read is gzip-decoded exactly when its bytes are gzip data, whether or
\* not its name ends in ".gz".
C19_GzipByContent ==
    (Loaded /\ ~last.cached /\ last.source.kind # "failed") =>
        /\ Len(last.decoded) = Len(Contents(last.source))
        /\ \A i \in 1..Len(last.decoded) :
               last.decoded[i] <=> Contents(last.source)[i].gzip

\* C20: every entry get_popular_verses returns is at a curated reference;
\* called with a category it returns only entries of the subset of the
\* curated list associated with that category, so that for some category
\* some curated entry is left out; called without a category it draws
\* from the whole curated list.
C20_PopularOfCategory ==
    last.op = "popular" =>
        /\ RefsOf(verses, last.ret) \subseteq Range(popular_references)
        /\ last.unfiltered # Range(CATEGORIES)

\* the place of a reference in the curated list
RefIndex(ref) ==
    CHOOSE n \in 1..Len(popular_references) : popular_references[n] = ref

\* C21: get_popular_verses returns at most count entries, for every count
\* and for count = 0 too, in the order of the curated list, each entry at
\* most once.
C21_PopularAtMostCount ==
    last.op = "popular" =>
        /\ Len(last.ret) <= last.count
        /\ \A i, j \in 1..Len(last.ret) :
               i < j =>
                  /\ last.ret[i] # last.ret[j]
                  /\ RefIndex(<<verses[last.ret[i]].book,
                                verses[last.ret[i]].chapter,
                                verses[last.ret[i]].verse>>)
                       < RefIndex(<<verses[last.ret[j]].book,
                                    verses[last.ret[j]].chapter,
                                    verses[last.ret[j]].verse>>)

\* what the last handle_counseling_request call did
Counselled == last.op = "counsel" /\ ~last.raised

\* the step a comes before every step b of the call
Before(a, b) ==
    \A j \in 1..Len(last.steps) :
        last.steps[j] = b => \E i \in 1..(j - 1) : last.steps[i] = a

\* C22: when search_verses returns an empty list on a non-empty corpus,
\* get_popular_verses is called before any fallback response is produced,
\* and when it returns entries the response is made of them.
C22_PopularBeforeFallback ==
    (Counselled /\ Len(verses) > 0 /\ last.ret = <<>>) =>
        /\ last.popular_called
        /\ Before("popular", "fallback")
        /\ last.popular # <<>> =>
               /\ last.response.outputs # <<>>
               /\ last.response.outputs[Len(last.response.outputs)].verses
                      = last.popular

\* C22 as amended: the entries get_popular_verses returns are handed to
\* the generation, and the response is made of them when the generation
\* answers a text.
C22_PopularBeforeFallbackGenerated ==
    (Counselled /\ Len(verses) > 0 /\ last.ret = <<>>) =>
        /\ last.popular_called
        /\ Before("popular", "fallback")
        /\ last.popular # <<>> =>
               /\ last.generated_with = last.popular
               /\ Before("popular", "generate")
               /\ \E i \in 1..Len(last.steps) : last.steps[i] = "generate"
               /\ last.env.ai = "text" =>
                      last.response.outputs[Len(last.response.outputs)].verses
                          = last.popular

\* C22 witness: a search that found nothing, popular entries, a response
\* made of them.
C22_Witness ==
    /\ Counselled /\ Len(verses) > 0 /\ last.ret = <<>>
    /\ last.popular # <<>>
    /\ last.env.ai = "text"
    /\ last.response.outputs[Len(last.response.outputs)].verses = last.popular

\* C23: every POST to /webhook is answered with status 200 and a body that
\* carries template.outputs, whatever failed while it was handled.
C23_WebhookAlways200 ==
    last.op = "webhook" =>
        /\ last.status = 200
        /\ last.response.template
        /\ Len(last.response.outputs) >= 1

\* C23 witness: a valid counseling request handled with no corpus (the
\* load failed), the session store unreachable and the fallback raising.
C23_Witness ==
    /\ last.op = "webhook" /\ last.status = 200
    /\ last.body.kind = "valid"
    /\ Len(verses) = 0 /\ ~is_loaded
    /\ last.env.session_fails /\ last.env.fallback_fails
    /\ last.response = create_simple_text("final")

\* C23 witness: an empty body answered with the error text.
C23_WitnessEmpty ==
    /\ last.op = "webhook" /\ last.status = 200
    /\ last.body.kind = "empty"
    /\ last.response = create_simple_text("error")
    /\ app_status.error_responses >= 1

\* C25: within one search_verses call the lexical matcher leaves the
\* vector-sourced results as they were: every entry the vector matcher
\* returned is in the final result, with the cosine score the vector
\* matcher gave it.
C25_KeywordLeavesVectorResults ==
    (Searched /\ last.kw_ran) =>
        \A i \in 1..Len(last.vec) :
            /\ \E j \in 1..Len(last.ret) : last.ret[j] = last.vec[i]
            /\ ScoreOf(last.vec[i]) = last.vec_scores[i]

\* C24: a search_verses call returns its entries with the similarity
\* scores it computed for its own query, all at or above the threshold,
\* also when another search_verses call for another query runs on another
\* thread.
C24_OwnScores ==
    last.op = "search_on_thread" =>
        /\ last.ret_scores = last.own_scores
        /\ AllAtLeastThreshold(last.ret_scores)

\* C26: when a load from a single remote URL failed because every download
\* attempt failed, also by a transfer that broke off midway, a later
\* load_embeddings call made when the URL is reachable downloads the file
\* again and succeeds.
C26_RetryDownloads ==
    (last.op = "load_url" /\ last.again
     /\ \A i \in 1..Len(last.outcomes) : last.outcomes[i] = "ok") =>
        /\ last.downloaded
        /\ last.ok

\* C27: set(k, v) removes another key only when k is not cached and
\* max_size keys are, and removes then the key least recently read or
\* written; after any get, set and clear at most max_size keys are
\* cached and access_order lists the cached keys, each once.
C27_CacheEvictsOnlyWhenFull ==
    /\ last.op = "cache_set" =>
           (last.removed # {} =>
               /\ ~last.was_cached
               /\ last.size_before = max_size
               /\ last.removed = {last.oldest})
    /\ Cardinality(DOMAIN cache) <= max_size
    /\ Range(access_order) = DOMAIN cache
    /\ Len(access_order) = Cardinality(DOMAIN cache)

\* the contents of a history
ContentsOf(history) == [i \in 1..Len(history) |-> history[i].content]

\* C28: after any add_message calls conversation_history holds at most
\* 2 x MAX_CONVERSATION_HISTORY messages in insertion order; each time
\* the limit is exceeded exactly the MAX_CONVERSATION_HISTORY most recent
\* messages are kept; interaction_count grows by one per call and
\* trimming never reduces it.
C28_HistoryBounded ==
    /\ Len(session.conversation_history) <= 2 * MAX_CONVERSATION_HISTORY
    /\ \A i, j \in 1..Len(session.conversation_history) :
           i < j => session.conversation_history[i].content
                       < session.conversation_history[j].content
    /\ last.op = "add_message" =>
           LET before == last.session_before.conversation_history
               after == session.conversation_history
           IN  /\ session.interaction_count
                      = last.session_before.interaction_count + 1
               /\ after[Len(after)] = last.message
               /\ IF Len(before) + 1 > 2 * MAX_CONVERSATION_HISTORY
                  THEN /\ Len(after) = MAX_CONVERSATION_HISTORY
                       /\ \A i \in 1..(Len(after) - 1) :
                              after[i] = before[Len(before) + 1 - Len(after) + i]
                  ELSE after = Append(before, last.message)

\* C28 witness: the history was trimmed for the second time, by the 17th
\* message of the session.
C28_Witness ==
    /\ last.op = "add_message"
    /\ Len(last.session_before.conversation_history)
           = 2 * MAX_CONVERSATION_HISTORY
    /\ session.interaction_count = 17
    /\ ContentsOf(session.conversation_history) = <<13, 14, 15, 16, 17>>

\* the last call went through _connect_to_mongodb
StoreCalled ==
    last.op \in {"get_user_session", "save_user_session", "log_interaction"}

\* C29: at most 3 connection attempts fail in the life of the process;
\* after the third failure get_user_session returns a new empty session
\* and save_user_session and log_interaction return False, none trying to
\* connect; an established connection is used again without an attempt
\* being counted.
C29_ThreeFailedAttempts ==
    /\ manager.failed_attempts <= _max_connection_attempts
    /\ (StoreCalled /\ last.manager_before.failed_attempts
                          = _max_connection_attempts) =>
           /\ ~last.attempted
           /\ manager = last.manager_before
           /\ last.op = "get_user_session" =>
                  session = [conversation_history |-> <<>>,
                             interaction_count |-> 0]
           /\ last.op # "get_user_session" => ~last.ok
    /\ (StoreCalled /\ last.manager_before.connected) =>
           /\ ~last.attempted
           /\ manager.connected
           /\ manager._connection_attempts
                  = last.manager_before._connection_attempts

\* C29 witness: get_user_session called after the third failed attempt,
\* with the server reachable again and a session in the store.
C29_Witness ==
    /\ last.op = "get_user_session"
    /\ last.manager_before.failed_attempts = 3
    /\ ~last.attempted /\ ~last.ok
    /\ session.conversation_history = <<>>

\* C29 witness: a call on a connection made at the third attempt.
C29_WitnessConnected ==
    /\ last.op = "save_user_session" /\ last.ok
    /\ last.manager_before.connected
    /\ manager._connection_attempts = 3 /\ manager.failed_attempts = 2

\* ---------------------------------------------------------------- C30

\* no POST /webhook request is in flight
NoRequestInFlight ==
    \A t \in Threads : running[t].pc \in {"idle", "done"}

\* C30: once every POST /webhook request in flight has completed,
\* total_requests equals successful_responses + error_responses, whatever
\* the number of requests and the interleaving of the requests handled at
\* the same time.
C30_CountersBalance ==
    NoRequestInFlight =>
        app_status.total_requests
            = app_status.successful_responses + app_status.error_responses

====
